---- MODULE Spec2Model ----
(***************************************************************************)
(* @promptpack/langchain as state machines.                                *)
(*                                                                         *)
(*  - Guardrail reconciliation and execution: validators.ts                *)
(*    (validateResponse and the four built-in evaluators) and              *)
(*    validation-runnable.ts (ValidationRunnable: construction, invoke);   *)
(*    specifications Spec and SpecEvaluators.                              *)
(*  - The template engine of template.ts: render with fragments and        *)
(*    variables (SpecTemplate), variable validation, defaults and          *)
(*    PromptPackTemplate.format (SpecVariables).                           *)
(*    PromptPackTemplate.format (SpecVariables, SpecRules), deep fragment  *)
(*    nesting (SpecFragments).                                             *)
(*  - The ToolExecutionManager of tools.ts (SpecTools).                    *)
(*  - The PromptPackRegistry of registry.ts (SpecRegistry).                *)
(*                                                                         *)
(* Text is a sequence of one-character strings.  A validator descriptor is *)
(* a record [type, enabled, fail_on_violation, params]; params is a record *)
(* that has exactly the keys the descriptor sets (a key that is absent is  *)
(* JavaScript's undefined).  An unset fail_on_violation is modelled as     *)
(* FALSE: the code only ever tests the flag for truthiness.                *)
(***************************************************************************)
EXTENDS Integers, Sequences, FiniteSets, TLC

VARIABLES validators, customValidators, throwOnFailure, phase, missing, last,
          firstCall, between,
          rendered, checked,
          policy, roundCount, callCount, roundsStarted, callsRecorded, obeyed,
          packs, operations

\* the guardrail pipeline, the template engine, the tool execution manager,
\* the pack registry
pipelineVars == <<validators, customValidators, throwOnFailure, phase,
                  missing, last, firstCall, between>>
templateVars == <<rendered, checked>>
toolVars == <<policy, roundCount, callCount, roundsStarted, callsRecorded,
              obeyed>>

registryVars == <<packs, operations>>

vars == <<pipelineVars, templateVars, toolVars, registryVars>>

(***************************************************************************)
(* Bounds of the model.                                                    *)
(***************************************************************************)
MaxValidators == 3
MaxPieces == 2
MaxVariables == 2
MaxLength == 11
MaxCount == 12

(***************************************************************************)
(* Text helpers (String.prototype.length / includes / toLowerCase, \w).    *)
(***************************************************************************)
Txt_bad == <<"b", "a", "d">>
Txt_good == <<"g", "o", "o", "d">>

LowerCase == <<"a", "b", "c", "d", "e", "f", "g", "h", "i", "j", "k", "l",
               "m", "n", "o", "p", "q", "r", "s", "t", "u", "v", "w", "x",
               "y", "z">>
UpperCase == <<"A", "B", "C", "D", "E", "F", "G", "H", "I", "J", "K", "L",
               "M", "N", "O", "P", "Q", "R", "S", "T", "U", "V", "W", "X",
               "Y", "Z">>
DigitChars == <<"0", "1", "2", "3", "4", "5", "6", "7", "8", "9">>

Range(f) == { f[k] : k \in DOMAIN f }

\* String.prototype.toLowerCase / the RegExp flag 'i', for one character
ToLower(c) ==
    IF \E k \in DOMAIN UpperCase : UpperCase[k] = c
    THEN LowerCase[CHOOSE k \in DOMAIN UpperCase : UpperCase[k] = c]
    ELSE c

\* \w
IsWordChar(c) ==
    c \in Range(LowerCase) \cup Range(UpperCase) \cup Range(DigitChars)
             \cup {"_"}

\* text.substring(i-1, i-1+Len(sub)) equals sub, optionally ignoring case
MatchesAt(text, sub, i, ignoreCase) ==
    /\ i + Len(sub) - 1 <= Len(text)
    /\ \A k \in 1..Len(sub) :
          IF ignoreCase
          THEN ToLower(text[i + k - 1]) = ToLower(sub[k])
          ELSE text[i + k - 1] = sub[k]

\* String.prototype.includes
Includes(text, sub) ==
    \E i \in 1..(Len(text) + 1) : MatchesAt(text, sub, i, FALSE)

\* \b at the gap before position i (1 <= i <= Len(text)+1)
WordBoundaryBefore(text, i) ==
    LET before == IF i > 1 THEN IsWordChar(text[i - 1]) ELSE FALSE
        after  == IF i <= Len(text) THEN IsWordChar(text[i]) ELSE FALSE
    IN before # after

\* new RegExp(`\\b${word}\\b`, 'i').test(response), for a literal word
BannedWordTest(response, word) ==
    \E i \in 1..(Len(response) + 1) :
        /\ MatchesAt(response, word, i, TRUE)
        /\ WordBoundaryBefore(response, i)
        /\ WordBoundaryBefore(response, i + Len(word))

\* Math.ceil(n / 4)
CeilDiv4(n) == (n + 3) \div 4

\* array.filter(keep), order preserving
RECURSIVE SelectWords(_, _)
SelectWords(words, response) ==
    IF words = <<>> THEN <<>>
    ELSE LET rest == SelectWords(Tail(words), response)
         IN IF BannedWordTest(response, Head(words))
            THEN <<Head(words)>> \o rest
            ELSE rest

(***************************************************************************)
(* validators.ts                                                           *)
(***************************************************************************)
OOTB_VALIDATORS == {"banned_words", "max_length", "min_length", "regex_match"}

isOOTBValidator(type) == type \in OOTB_VALIDATORS

\* an absent params bag, an absent details bag, an absent message
NoParams == <<>>
NoDetails == <<>>
NoMessage == ""

HasParam(validator, key) == key \in DOMAIN validator.params

ValidationResult(passed, validatorType, message, details) ==
    [passed |-> passed, validatorType |-> validatorType,
     message |-> message, details |-> details]

GuardrailViolationError(message, validatorType, details) ==
    [name |-> "GuardrailViolationError", message |-> message,
     validatorType |-> validatorType, details |-> details]

NoError == [name |-> "none"]

\* result.message || 'Validation failed'
MessageOrDefault(message) ==
    IF message = NoMessage THEN "Validation failed" ELSE message

\* a variant that compares with the casing of the response
validateBannedWords_caseSensitive(response, validator) ==
    LET words == IF HasParam(validator, "words")
                 THEN validator.params.words ELSE <<>>
        foundWords == SelectSeq(words, LAMBDA w : Includes(response, w))
    IN IF Len(foundWords) > 0
       THEN ValidationResult(FALSE, "banned_words",
                             "Response contains banned words",
                             [banned_words |-> foundWords])
       ELSE ValidationResult(TRUE, "banned_words", NoMessage, NoDetails)

validateBannedWords(response, validator) ==
    LET words == IF HasParam(validator, "words")
                 THEN validator.params.words ELSE <<>>
        foundWords == SelectWords(words, response)
    IN IF Len(foundWords) > 0
       THEN ValidationResult(FALSE, "banned_words",
                             "Response contains banned words",
                             [banned_words |-> foundWords])
       ELSE ValidationResult(TRUE, "banned_words", NoMessage, NoDetails)

\* a variant that checks the token bound before the character bound
validateMaxLength_tokensFirst(response, validator) ==
    IF /\ HasParam(validator, "max_tokens")
       /\ CeilDiv4(Len(response)) > validator.params.max_tokens
    THEN ValidationResult(FALSE, "max_length",
             "Response exceeds maximum tokens",
             [estimated_tokens |-> CeilDiv4(Len(response)),
              max_tokens |-> validator.params.max_tokens])
    ELSE IF /\ HasParam(validator, "max_characters")
            /\ Len(response) > validator.params.max_characters
    THEN ValidationResult(FALSE, "max_length",
             "Response exceeds maximum length",
             [length |-> Len(response),
              max_characters |-> validator.params.max_characters])
    ELSE ValidationResult(TRUE, "max_length", NoMessage, NoDetails)

validateMaxLength(response, validator) ==
    LET estimatedTokens == CeilDiv4(Len(response))
    IN IF /\ HasParam(validator, "max_characters")
          /\ Len(response) > validator.params.max_characters
       THEN ValidationResult(FALSE, "max_length",
                "Response exceeds maximum length",
                [length |-> Len(response),
                 max_characters |-> validator.params.max_characters])
       ELSE IF /\ HasParam(validator, "max_tokens")
               /\ estimatedTokens > validator.params.max_tokens
       THEN ValidationResult(FALSE, "max_length",
                "Response exceeds maximum tokens",
                [estimated_tokens |-> estimatedTokens,
                 max_tokens |-> validator.params.max_tokens])
       ELSE ValidationResult(TRUE, "max_length", NoMessage, NoDetails)

validateMinLength(response, validator) ==
    LET estimatedTokens == CeilDiv4(Len(response))
    IN IF /\ HasParam(validator, "min_characters")
          /\ Len(response) < validator.params.min_characters
       THEN ValidationResult(FALSE, "min_length",
                "Response below minimum length",
                [length |-> Len(response),
                 min_characters |-> validator.params.min_characters])
       ELSE IF /\ HasParam(validator, "min_tokens")
               /\ estimatedTokens < validator.params.min_tokens
       THEN ValidationResult(FALSE, "min_length",
                "Response below minimum tokens",
                [estimated_tokens |-> estimatedTokens,
                 min_tokens |-> validator.params.min_tokens])
       ELSE ValidationResult(TRUE, "min_length", NoMessage, NoDetails)

\* new RegExp(pattern) throws SyntaxError: the patterns of the model are
\* literal words, plus an unterminated group or class, which does not compile
RegExpCompiles(pattern) ==
    \A i \in 1..Len(pattern) : pattern[i] \notin {"(", "["}

\* regex.test(response) for a literal pattern
RegExpTest(pattern, response) == Includes(response, pattern)

validateRegexMatch(response, validator) ==
    LET hasPattern == /\ HasParam(validator, "pattern")
                      /\ validator.params.pattern # <<>>
        mustMatch == IF HasParam(validator, "must_match")
                     THEN validator.params.must_match # FALSE ELSE TRUE
    IN IF ~hasPattern
       THEN ValidationResult(TRUE, "regex_match", "No pattern specified",
                             NoDetails)
       ELSE IF ~RegExpCompiles(validator.params.pattern)
       THEN ValidationResult(FALSE, "regex_match", "Invalid regex pattern",
                             [error |-> "SyntaxError"])
       ELSE LET matches == RegExpTest(validator.params.pattern, response)
            IN IF mustMatch /\ ~matches
               THEN ValidationResult(FALSE, "regex_match",
                        "Response does not match required pattern",
                        [pattern |-> validator.params.pattern])
               ELSE IF ~mustMatch /\ matches
               THEN ValidationResult(FALSE, "regex_match",
                        "Response matches forbidden pattern",
                        [pattern |-> validator.params.pattern])
               ELSE ValidationResult(TRUE, "regex_match", NoMessage,
                                     NoDetails)

\* a dispatch that reports a type it does not know as a failure
runValidator_unknownFails(response, validator) ==
    IF isOOTBValidator(validator.type)
    THEN CASE validator.type = "banned_words" ->
                 validateBannedWords(response, validator)
           [] validator.type = "max_length" ->
                 validateMaxLength(response, validator)
           [] validator.type = "min_length" ->
                 validateMinLength(response, validator)
           [] OTHER -> validateRegexMatch(response, validator)
    ELSE ValidationResult(FALSE, validator.type, "Unknown validator type",
                          NoDetails)

runValidator(response, validator) ==
    CASE validator.type = "banned_words" ->
            validateBannedWords(response, validator)
      [] validator.type = "max_length" ->
            validateMaxLength(response, validator)
      [] validator.type = "min_length" ->
            validateMinLength(response, validator)
      [] validator.type = "regex_match" ->
            validateRegexMatch(response, validator)
      [] OTHER ->
            ValidationResult(TRUE, validator.type, "Unknown validator type",
                             NoDetails)

allValidatorsPassed(results) ==
    \A i \in 1..Len(results) : results[i].passed

\* a filter that stops at the first failing outcome
getFailedValidators_firstOnly(results) ==
    LET all == SelectSeq(results, LAMBDA r : ~r.passed)
    IN IF Len(all) = 0 THEN <<>> ELSE <<all[1]>>

getFailedValidators(results) ==
    SelectSeq(results, LAMBDA r : ~r.passed)

(***************************************************************************)
(* The outcome of one call: what it returned or raised, and `calls`, the   *)
(* evaluations it performed, in order: the index of the descriptor in the  *)
(* list and whether a custom implementation or the built-in switch ran.    *)
(***************************************************************************)
Call(index, by) == [index |-> index, by |-> by]

Returned(results, calls) ==
    [status |-> "returned", results |-> results, error |-> NoError,
     calls |-> calls]

Raised(error, calls) ==
    [status |-> "raised", results |-> <<>>, error |-> error, calls |-> calls]

\* the loop of validateResponse from descriptor i on, and the part of one
\* iteration that follows `const result = runValidator(response, validator)`
RECURSIVE validateResponseLoop(_, _, _, _, _)
RECURSIVE validateResponseStep(_, _, _, _, _, _)
validateResponseStep(response, vs, i, results, calls, result) ==
    IF ~result.passed /\ vs[i].fail_on_violation
    THEN Raised(GuardrailViolationError(MessageOrDefault(result.message),
                                        vs[i].type, result.details),
                Append(calls, Call(i, "builtin")))
    ELSE validateResponseLoop(response, vs, i + 1, Append(results, result),
                              Append(calls, Call(i, "builtin")))

validateResponseLoop(response, vs, i, results, calls) ==
    IF i > Len(vs) THEN Returned(results, calls)
    ELSE IF ~vs[i].enabled
    THEN validateResponseLoop(response, vs, i + 1, results, calls)
    ELSE validateResponseStep(response, vs, i, results, calls,
                              runValidator(response, vs[i]))

\* a batch path that records failures but never throws
validateResponse_neverThrows(response, vs) ==
    validateResponseLoop(response,
        [i \in 1..Len(vs) |-> [vs[i] EXCEPT !.fail_on_violation = FALSE]],
        1, <<>>, <<>>)

validateResponse(response, vs) ==
    validateResponseLoop(response, vs, 1, <<>>, <<>>)

(***************************************************************************)
(* Custom implementations (CustomValidatorFn): caller code, a pure         *)
(* function of (response, descriptor).  The registry maps a type tag to    *)
(* the name of one of these implementations.                               *)
(***************************************************************************)
CustomOutcome(impl, response, validator) ==
    CASE impl = "positiveSentiment" ->
            \* the 'sentiment' implementation of validation-runnable.test.ts
            IF Includes(response, Txt_good)
            THEN ValidationResult(TRUE, "sentiment", NoMessage, NoDetails)
            ELSE ValidationResult(FALSE, "sentiment",
                                  "Sentiment not positive", NoDetails)
      [] impl = "rejectAll" ->
            ValidationResult(FALSE, validator.type, "Rejected by custom",
                             [custom |-> TRUE])
      [] OTHER ->
            ValidationResult(TRUE, validator.type, NoMessage, NoDetails)

(***************************************************************************)
(* validation-runnable.ts                                                  *)
(***************************************************************************)
\* this.customValidators[validator.type] is truthy
HasCustom(cv, type) == type \in DOMAIN cv

\* a constructor that does not reconcile at all
missingValidators_none(vs, cv) == <<>>

\* a reconciliation that reports only the first missing type
missingValidators_firstOnly(vs, cv) ==
    LET lacking == SelectSeq(vs, LAMBDA v : /\ v.enabled
                                            /\ ~isOOTBValidator(v.type)
                                            /\ ~HasCustom(cv, v.type))
    IN IF Len(lacking) = 0 THEN <<>> ELSE <<lacking[1].type>>

\* the loop of validateValidatorImplementations: the type of every enabled
\* descriptor that is neither built-in nor implemented, in declaration order
missingValidators(vs, cv) ==
    LET lacking == SelectSeq(vs, LAMBDA v : /\ v.enabled
                                            /\ ~isOOTBValidator(v.type)
                                            /\ ~HasCustom(cv, v.type))
    IN [k \in 1..Len(lacking) |-> lacking[k].type]

\* validateResponse(content, [validator])[0]: the single result of the
\* batch path, or its exception
firstResult(direct, validator) ==
    [by |-> "builtin", status |-> direct.status, error |-> direct.error,
     result |-> IF direct.status = "returned"
                THEN direct.results[1]
                ELSE ValidationResult(FALSE, validator.type, NoMessage,
                                      NoDetails)]

\* customValidator(content, validator)
customResult(impl, content, validator) ==
    [by |-> "custom", status |-> "returned", error |-> NoError,
     result |-> CustomOutcome(impl, content, validator)]

\* a dispatch that prefers the built-in evaluator for a built-in type
evaluateOne_builtinFirst(content, validator, cv) ==
    IF HasCustom(cv, validator.type) /\ ~isOOTBValidator(validator.type)
    THEN customResult(cv[validator.type], content, validator)
    ELSE firstResult(validateResponse(content, <<validator>>), validator)

\* one iteration of runValidation for an enabled descriptor: the custom
\* implementation when one is registered for the type, and otherwise
\* validateResponse(content, [validator])[0], which may raise
evaluateOne(content, validator, cv) ==
    IF HasCustom(cv, validator.type)
    THEN customResult(cv[validator.type], content, validator)
    ELSE firstResult(validateResponse(content, <<validator>>), validator)

\* the loop of runValidation from descriptor i on, and the part of one
\* iteration that follows the evaluation `one` of descriptor i
RECURSIVE runValidationLoop(_, _, _, _, _, _)
RECURSIVE runValidationStep(_, _, _, _, _, _, _)
runValidationStep(content, vs, cv, i, results, calls, one) ==
    IF one.status = "raised"
    THEN Raised(one.error, Append(calls, Call(i, one.by)))
    ELSE runValidationLoop(content, vs, cv, i + 1,
                           Append(results, one.result),
                           Append(calls, Call(i, one.by)))

runValidationLoop(content, vs, cv, i, results, calls) ==
    IF i > Len(vs) THEN Returned(results, calls)
    ELSE IF ~vs[i].enabled
    THEN runValidationLoop(content, vs, cv, i + 1, results, calls)
    ELSE runValidationStep(content, vs, cv, i, results, calls,
                           evaluateOne(content, vs[i], cv))

runValidation(content, vs, cv) ==
    runValidationLoop(content, vs, cv, 1, <<>>, <<>>)

\* this.validators.find(v => v.type === type)?.fail_on_violation
RECURSIVE findFailOnViolation(_, _)
findFailOnViolation(vs, type) ==
    IF vs = <<>> THEN FALSE
    ELSE IF Head(vs).type = type THEN Head(vs).fail_on_violation
    ELSE findFailOnViolation(Tail(vs), type)

criticalFailures(vs, failed) ==
    SelectSeq(failed, LAMBDA r : findFailOnViolation(vs, r.validatorType))

\* what a call left behind: the operation, its input, and what it returned
\* (validation.passed / results / failed) or raised
Report(op, response, run, passed, failed) ==
    [op |-> op, response |-> response, status |-> run.status,
     passed |-> passed, results |-> run.results, failed |-> failed,
     error |-> run.error, calls |-> run.calls]

NoCall == Report("none", <<>>, Returned(<<>>, <<>>), TRUE, <<>>)

\* invoke after `const results = this.runValidation(content)`
invokeAfterRun(content, vs, tof, run) ==
    IF run.status = "raised"
    THEN Report("invoke", content, run, FALSE, <<>>)
    ELSE LET passed == allValidatorsPassed(run.results)
             failed == getFailedValidators(run.results)
             critical == criticalFailures(vs, failed)
         IN IF ~passed /\ tof /\ Len(critical) > 0
            THEN Report("invoke", content,
                     Raised(GuardrailViolationError(
                                MessageOrDefault(critical[1].message),
                                critical[1].validatorType,
                                critical[1].details), run.calls),
                     FALSE, <<>>)
            ELSE Report("invoke", content, run, passed, failed)

invoke(content, vs, cv, tof) ==
    invokeAfterRun(content, vs, tof, runValidation(content, vs, cv))

(***************************************************************************)
(* template.ts, PromptPackTemplateEngine with the default syntax           *)
(* '{{variable}}'.  A placeholder name is a text; a fragment map is a      *)
(* function from names to texts and a variable map a function from names   *)
(* to values, a key that is absent being JavaScript's undefined.  A value  *)
(* is a record tagged with what `typeof` / Array.isArray / `=== null` tell *)
(* about it: [type |-> "string", str], [type |-> "number", num],           *)
(* [type |-> "boolean", bool], [type |-> "object" or "array", json],       *)
(* [type |-> "null"] and [type |-> "undefined"] (a key set to undefined).  *)
(***************************************************************************)
\* [a-zA-Z_]
IsIdentStart(c) == c \in Range(LowerCase) \cup Range(UpperCase) \cup {"_"}

\* [a-zA-Z0-9_]
IsIdentChar(c) == IsIdentStart(c) \/ c \in Range(DigitChars)

\* the text of the placeholder token of a name
Ph(name) == <<"{", "{">> \o name \o <<"}", "}">>

\* the greedy run [a-zA-Z0-9_]* that has reached position k: its last position
RECURSIVE IdentEnd(_, _)
IdentEnd(text, k) ==
    IF k + 1 <= Len(text) /\ IsIdentChar(text[k + 1])
    THEN IdentEnd(text, k + 1)
    ELSE k

\* \}\} right after position e: the position of the second brace, else 0
PlaceholderClose(text, e) ==
    IF e + 2 <= Len(text) /\ text[e + 1] = "}" /\ text[e + 2] = "}"
    THEN e + 2
    ELSE 0

\* the pattern of getSyntaxPattern(), \{\{([a-zA-Z_][a-zA-Z0-9_]*)\}\},
\* tried at position i: the position of the last character matched, else 0
PlaceholderEnd(text, i) ==
    IF /\ i + 2 <= Len(text)
       /\ text[i] = "{"
       /\ text[i + 1] = "{"
       /\ IsIdentStart(text[i + 2])
    THEN PlaceholderClose(text, IdentEnd(text, i + 2))
    ELSE 0

\* the matches of the global pattern from position i on, leftmost first and
\* not overlapping: [from, to, name]
RECURSIVE Matches(_, _), MatchesStep(_, _, _)
MatchesStep(text, i, e) ==
    IF e = 0
    THEN Matches(text, i + 1)
    ELSE <<[from |-> i, to |-> e, name |-> SubSeq(text, i + 2, e - 2)]>>
             \o Matches(text, e + 1)

Matches(text, i) ==
    IF i > Len(text) THEN <<>>
    ELSE MatchesStep(text, i, PlaceholderEnd(text, i))

\* a variant without the global flag: only the first match is replaced
ReplaceAll_firstOnly(text, i, ms, table) ==
    IF ms = <<>> THEN SubSeq(text, i, Len(text))
    ELSE SubSeq(text, i, Head(ms).from - 1)
             \o (IF Head(ms).name \in DOMAIN table
                 THEN table[Head(ms).name]
                 ELSE SubSeq(text, Head(ms).from, Head(ms).to))
             \o SubSeq(text, Head(ms).to + 1, Len(text))

\* text.replace(pattern, replacer) from position i on: a match whose name is
\* a key of `table` is replaced by the entry, any other match is returned as
\* it was written; what is inserted is not scanned again
RECURSIVE ReplaceAll(_, _, _, _)
ReplaceAll(text, i, ms, table) ==
    IF ms = <<>> THEN SubSeq(text, i, Len(text))
    ELSE SubSeq(text, i, Head(ms).from - 1)
             \o (IF Head(ms).name \in DOMAIN table
                 THEN table[Head(ms).name]
                 ELSE SubSeq(text, Head(ms).from, Head(ms).to))
             \o ReplaceAll(text, Head(ms).to + 1, Tail(ms), table)

TemplateError(message, subject) ==
    [name |-> "TemplateError", message |-> message, subject |-> subject]

NoSubject == <<>>

DepthExceeded ==
    TemplateError("Maximum fragment substitution depth exceeded (possible circular reference)",
                  NoSubject)

NotDefined(name) == TemplateError("Variable '${name}' is not defined", name)

\* const maxDepth = 10
maxDepth == 10

\* the replacer set hasMore: some match names a fragment
hasFragment(ms, fragments) ==
    \E k \in 1..Len(ms) : ms[k].name \in DOMAIN fragments

\* while (hasMore && depth < maxDepth) { hasMore = false; replace; depth++ }
RECURSIVE substituteFragmentsLoop(_, _, _, _), substituteFragmentsPass(_, _, _, _)
substituteFragmentsPass(result, fragments, depth, ms) ==
    substituteFragmentsLoop(ReplaceAll(result, 1, ms, fragments), fragments,
                            depth + 1, hasFragment(ms, fragments))

substituteFragmentsLoop(result, fragments, depth, hasMore) ==
    IF hasMore /\ depth < maxDepth
    THEN substituteFragmentsPass(result, fragments, depth, Matches(result, 1))
    ELSE [result |-> result, depth |-> depth]

\* a variant that returns what it has when the cap is reached
substituteFragmentsEnd_returnsAtCap(loop) ==
    [status |-> "returned", text |-> loop.result, error |-> NoError,
     depth |-> loop.depth]

\* after the loop: if (depth >= maxDepth) throw, else return result
substituteFragmentsEnd(loop) ==
    IF loop.depth >= maxDepth
    THEN [status |-> "raised", text |-> <<>>, error |-> DepthExceeded,
          depth |-> loop.depth]
    ELSE [status |-> "returned", text |-> loop.result, error |-> NoError,
          depth |-> loop.depth]

substituteFragments(template, fragments) ==
    substituteFragmentsEnd(substituteFragmentsLoop(template, fragments, 0, TRUE))

Undefined == [type |-> "undefined"]

\* variables[name]
Lookup(values, name) ==
    IF name \in DOMAIN values THEN values[name] ELSE Undefined

\* variables[name] !== undefined
IsDefined(values, name) == Lookup(values, name) # Undefined

\* String(n) of an integer
RECURSIVE NumberToText(_)
NumberToText(n) ==
    IF n < 0 THEN <<"-">> \o NumberToText(0 - n)
    ELSE IF n < 10 THEN <<DigitChars[n + 1]>>
    ELSE NumberToText(n \div 10) \o <<DigitChars[(n % 10) + 1]>>

valueToString(value) ==
    CASE value.type = "string" -> value.str
      [] value.type = "number" -> NumberToText(value.num)
      [] value.type = "boolean" ->
            IF value.bool THEN <<"t", "r", "u", "e">>
            ELSE <<"f", "a", "l", "s", "e">>
      [] value.type \in {"object", "array"} -> value.json
      [] value.type = "null" -> <<"n", "u", "l", "l">>
      [] OTHER -> <<"u", "n", "d", "e", "f", "i", "n", "e", "d">>

\* the names of the matches whose variable is undefined, in match order
undefinedNames(ms, variables) ==
    SelectSeq([k \in 1..Len(ms) |-> ms[k].name],
              LAMBDA name : ~IsDefined(variables, name))

\* the string forms of the variables that are defined
stringForms(variables) ==
    [name \in { n \in DOMAIN variables : IsDefined(variables, n) } |->
        valueToString(variables[name])]

substituteVariablesOn(template, variables, allowUndefined, ms, undef) ==
    IF ~allowUndefined /\ undef # <<>>
    THEN [status |-> "raised", text |-> <<>>, error |-> NotDefined(undef[1])]
    ELSE [status |-> "returned",
          text |-> ReplaceAll(template, 1, ms, stringForms(variables)),
          error |-> NoError]

\* a variant that drops a placeholder whose variable is undefined
substituteVariables_dropsUndefined(template, variables, allowUndefined) ==
    [status |-> "returned",
     text |-> ReplaceAll(template, 1, Matches(template, 1),
                 [name \in { m.name : m \in Range(Matches(template, 1)) } |->
                     IF IsDefined(variables, name)
                     THEN valueToString(variables[name]) ELSE <<>>]),
     error |-> NoError]

\* a variant that takes every opening brace pair for a placeholder
substituteVariables_rejectsBraces(template, variables, allowUndefined) ==
    IF ~allowUndefined /\ Includes(template, <<"{", "{">>)
    THEN [status |-> "raised", text |-> <<>>, error |-> NotDefined(<<>>)]
    ELSE substituteVariablesOn(template, variables, allowUndefined,
                               Matches(template, 1), <<>>)

\* a variant that scans its own output once more
substituteVariables_rescans(template, variables, allowUndefined) ==
    LET once == substituteVariablesOn(template, variables, allowUndefined,
                    Matches(template, 1),
                    undefinedNames(Matches(template, 1), variables))
    IN IF once.status = "raised" THEN once
       ELSE substituteVariablesOn(once.text, variables, allowUndefined,
                Matches(once.text, 1),
                undefinedNames(Matches(once.text, 1), variables))

\* template.replace(pattern, replacer): the replacer throws at the first
\* match whose variable is undefined unless allowUndefined
substituteVariables(template, variables, allowUndefined) ==
    substituteVariablesOn(template, variables, allowUndefined,
                          Matches(template, 1),
                          undefinedNames(Matches(template, 1), variables))

\* render after `let result = this.substituteFragments(template, fragments)`
renderAfterFragments(resolved, variables, allowUndefined, out) ==
    [status |-> out.status, text |-> out.text, error |-> out.error,
     depth |-> resolved.depth]

renderOn(resolved, variables, allowUndefined) ==
    IF resolved.status = "raised" THEN resolved
    ELSE renderAfterFragments(resolved, variables, allowUndefined,
             substituteVariables(resolved.text, variables, allowUndefined))

\* a variant that substitutes the defined variables before the fragments
render_variablesFirst(template, variables, fragments, allowUndefined) ==
    renderOn(substituteFragments(ReplaceAll(template, 1, Matches(template, 1),
                                            stringForms(variables)),
                                 fragments),
             variables, allowUndefined)

\* render(template, {variables, fragments, allowUndefined})
render(template, variables, fragments, allowUndefined) ==
    renderOn(substituteFragments(template, fragments), variables,
             allowUndefined)

\* what a call of render left behind
Rendering(op, template, variables, fragments, allowUndefined, out) ==
    [op |-> op, template |-> template, variables |-> variables,
     fragments |-> fragments, allowUndefined |-> allowUndefined,
     status |-> out.status, text |-> out.text, error |-> out.error,
     depth |-> out.depth]

NoRender ==
    Rendering("none", <<>>, <<>>, <<>>, FALSE,
              [status |-> "returned", text |-> <<>>, error |-> NoError,
               depth |-> 0])

StringValue(text) == [type |-> "string", str |-> text]
NumberValue(n) == [type |-> "number", num |-> n]
BooleanValue(b) == [type |-> "boolean", bool |-> b]
ObjectValue(json) == [type |-> "object", json |-> json]
ArrayValue(json) == [type |-> "array", json |-> json]
NullValue == [type |-> "null"]

(***************************************************************************)
(* template.ts, variable validation and PromptPackTemplate.format.  A      *)
(* variable definition is a record [name, type, required, default,         *)
(* validation]: default is Undefined when the definition has none, and     *)
(* validation is a record with exactly the rules the definition sets       *)
(* (NoValidation when it has none).                                        *)
(***************************************************************************)
ValidationError(message, variable, got) ==
    [name |-> "ValidationError", message |-> message, variable |-> variable,
     got |-> got]

SyntaxError(variable) ==
    [name |-> "SyntaxError", message |-> "Invalid regular expression",
     variable |-> variable, got |-> ""]

Missing(name) ==
    ValidationError("Required variable '${name}' is missing", name, "")

NoValidation == <<>>

HasRule(validation, rule) == rule \in DOMAIN validation

\* typeof value
TypeOf(value) ==
    IF value.type \in {"object", "array", "null"} THEN "object"
    ELSE value.type

\* the first of two checks that threw
FirstError(e1, e2) == IF e1 # NoError THEN e1 ELSE e2

validateType(name, value, expectedType) ==
    CASE expectedType = "string" ->
            IF TypeOf(value) # "string"
            THEN ValidationError("Variable '${name}' must be a string, got ${actualType}",
                                 name, TypeOf(value))
            ELSE NoError
      [] expectedType = "number" ->
            IF TypeOf(value) # "number"
            THEN ValidationError("Variable '${name}' must be a number, got ${actualType}",
                                 name, TypeOf(value))
            ELSE NoError
      [] expectedType = "boolean" ->
            IF TypeOf(value) # "boolean"
            THEN ValidationError("Variable '${name}' must be a boolean, got ${actualType}",
                                 name, TypeOf(value))
            ELSE NoError
      [] expectedType = "object" ->
            IF TypeOf(value) # "object" \/ value.type \in {"null", "array"}
            THEN ValidationError("Variable '${name}' must be an object, got ${actualType}",
                                 name, TypeOf(value))
            ELSE NoError
      [] expectedType = "array" ->
            IF value.type # "array"
            THEN ValidationError("Variable '${name}' must be an array, got ${actualType}",
                                 name, TypeOf(value))
            ELSE NoError
      [] OTHER -> NoError

\* the pattern rule: new RegExp(pattern) may throw, then regex.test(value)
patternRule(name, text, pattern) ==
    IF ~RegExpCompiles(pattern) THEN SyntaxError(name)
    ELSE IF ~RegExpTest(pattern, text)
    THEN ValidationError("Variable '${name}' does not match pattern ${validation.pattern}",
                         name, "")
    ELSE NoError

validateStringRules(name, text, validation) ==
    FirstError(
        IF HasRule(validation, "pattern") /\ validation.pattern # <<>>
        THEN patternRule(name, text, validation.pattern)
        ELSE NoError,
        FirstError(
            IF HasRule(validation, "min_length")
               /\ Len(text) < validation.min_length
            THEN ValidationError("Variable '${name}' must be at least ${validation.min_length} characters, got ${value.length}",
                                 name, "")
            ELSE NoError,
            IF HasRule(validation, "max_length")
               /\ Len(text) > validation.max_length
            THEN ValidationError("Variable '${name}' must be at most ${validation.max_length} characters, got ${value.length}",
                                 name, "")
            ELSE NoError))

validateNumberRules(name, num, validation) ==
    FirstError(
        IF HasRule(validation, "minimum") /\ num < validation.minimum
        THEN ValidationError("Variable '${name}' must be at least ${validation.minimum}, got ${value}",
                             name, "")
        ELSE NoError,
        IF HasRule(validation, "maximum") /\ num > validation.maximum
        THEN ValidationError("Variable '${name}' must be at most ${validation.maximum}, got ${value}",
                             name, "")
        ELSE NoError)

\* enumValues.includes(value): objects and arrays are compared by identity
validateEnumRule(name, value, enumValues) ==
    IF value.type \in {"object", "array"} \/ value \notin Range(enumValues)
    THEN ValidationError("Variable '${name}' must be one of: ${enumValues.join(', ')}",
                         name, "")
    ELSE NoError

\* a variant that checks the enum before the rules of the type
validateRules_enumFirst(name, value, validation, type) ==
    FirstError(
        IF HasRule(validation, "enum")
        THEN validateEnumRule(name, value, validation.enum)
        ELSE NoError,
        FirstError(
            IF type = "string" /\ TypeOf(value) = "string"
            THEN validateStringRules(name, value.str, validation)
            ELSE NoError,
            IF type = "number" /\ TypeOf(value) = "number"
            THEN validateNumberRules(name, value.num, validation)
            ELSE NoError))

validateRules(name, value, validation, type) ==
    FirstError(
        IF type = "string" /\ TypeOf(value) = "string"
        THEN validateStringRules(name, value.str, validation)
        ELSE NoError,
        FirstError(
            IF type = "number" /\ TypeOf(value) = "number"
            THEN validateNumberRules(name, value.num, validation)
            ELSE NoError,
            IF HasRule(validation, "enum")
            THEN validateEnumRule(name, value, validation.enum)
            ELSE NoError))

\* the body of the loop of validateVariables for one definition: what it
\* throws, NoError if it throws nothing
checkVariable(varDef, value) ==
    IF varDef.required /\ value = Undefined THEN Missing(varDef.name)
    ELSE IF value = Undefined THEN NoError
    ELSE FirstError(validateType(varDef.name, value, varDef.type),
                    IF varDef.validation # NoValidation
                    THEN validateRules(varDef.name, value, varDef.validation,
                                       varDef.type)
                    ELSE NoError)

\* for (const varDef of variableDefinitions): log is the names of the
\* definitions whose checks have run
RECURSIVE validateVariablesLoop(_, _, _, _), validateVariablesStep(_, _, _, _, _)
validateVariablesStep(defs, values, i, log, thrown) ==
    IF thrown # NoError
    THEN [status |-> "raised", error |-> thrown, log |-> log,
          validated |-> TRUE]
    ELSE validateVariablesLoop(defs, values, i + 1, log)

validateVariablesLoop(defs, values, i, log) ==
    IF i > Len(defs)
    THEN [status |-> "returned", error |-> NoError, log |-> log,
          validated |-> TRUE]
    ELSE validateVariablesStep(defs, values, i, Append(log, defs[i].name),
             checkVariable(defs[i], Lookup(values, defs[i].name)))

\* a variant that checks every definition and throws the last error
RECURSIVE lastError(_, _, _, _)
lastError(defs, values, i, found) ==
    IF i > Len(defs) THEN found
    ELSE lastError(defs, values, i + 1,
             FirstError(checkVariable(defs[i], Lookup(values, defs[i].name)),
                        found))

validateVariables_checksAll(defs, values) ==
    [status |-> IF lastError(defs, values, 1, NoError) # NoError
                THEN "raised" ELSE "returned",
     error |-> lastError(defs, values, 1, NoError),
     log |-> [k \in 1..Len(defs) |-> defs[k].name],
     validated |-> TRUE]

validateVariables(defs, values) == validateVariablesLoop(defs, values, 1, <<>>)

\* result[name] = value
Put(m, k, v) == [n \in DOMAIN m \cup {k} |-> IF n = k THEN v ELSE m[n]]

RECURSIVE applyDefaultsLoop(_, _, _)
applyDefaultsLoop(defs, result, i) ==
    IF i > Len(defs) THEN result
    ELSE applyDefaultsLoop(defs,
             IF Lookup(result, defs[i].name) = Undefined
                /\ defs[i].default # Undefined
             THEN Put(result, defs[i].name, defs[i].default)
             ELSE result,
             i + 1)

applyDefaults(defs, values) == applyDefaultsLoop(defs, values, 1)

\* what validateVariables or format left behind: the definitions and values
\* given, whether the checks ran and on which values, the outcome, the text
Checking(op, defs, values, effective, run, text) ==
    [op |-> op, validated |-> run.validated, definitions |-> defs,
     values |-> values,
     effective |-> effective, status |-> run.status, error |-> run.error,
     log |-> run.log, text |-> text]

NotValidated ==
    [status |-> "returned", error |-> NoError, log |-> <<>>,
     validated |-> FALSE]

\* format after the validation step: render the system template
formatRender(defs, values, withDefaults, run, out) ==
    Checking("format", defs, values, withDefaults,
             [status |-> out.status, error |-> out.error, log |-> run.log,
              validated |-> run.validated],
             out.text)

formatValidated(defs, values, filled, template, fragments, lenient, run) ==
    IF run.status = "raised"
    THEN Checking("format", defs, values, filled, run, <<>>)
    ELSE formatRender(defs, values, filled, run,
                      render(template, filled, fragments, lenient))

formatOn(defs, values, filled, template, fragments, validate, lenient) ==
    formatValidated(defs, values, filled, template, fragments, lenient,
                    IF validate THEN validateVariables(defs, filled)
                    ELSE NotValidated)

\* PromptPackTemplate.format(values), renderOptions = {validate,
\* allowUndefined}
format(defs, values, template, fragments, validate, allowUndefined) ==
    formatOn(defs, values, applyDefaults(defs, values), template, fragments,
             validate, allowUndefined)

NoCheck == Checking("none", <<>>, <<>>, <<>>, NotValidated, <<>>)

(***************************************************************************)
(* tools.ts, ToolExecutionManager.  A policy is a record with exactly the  *)
(* keys it sets; policy, roundCount and callCount are the fields of the    *)
(* manager.  roundsStarted and callsRecorded count the startRound() and    *)
(* recordCall() calls since construction or the last reset(), and obeyed   *)
(* tells that every startRound() so far came when canExecuteRound() was    *)
(* true and every recordCall() when canExecuteCall() was true.             *)
(***************************************************************************)
DefaultPolicy ==
    [tool_choice |-> "auto", max_rounds |-> 5, max_tool_calls_per_turn |-> 10]

\* this.policy = policy || {...}
newToolExecutionManager(policyArg) ==
    IF policyArg = Undefined THEN DefaultPolicy ELSE policyArg

\* a variant that replaces only a missing limit (??), so that 0 stays 0
maxRounds_zeroKept(p) == IF "max_rounds" \in DOMAIN p THEN p.max_rounds ELSE 5

\* this.policy.max_rounds || 5
maxRounds(p) ==
    IF "max_rounds" \in DOMAIN p /\ p.max_rounds # 0 THEN p.max_rounds ELSE 5

\* this.policy.max_tool_calls_per_turn || 10
maxCalls(p) ==
    IF "max_tool_calls_per_turn" \in DOMAIN p /\ p.max_tool_calls_per_turn # 0
    THEN p.max_tool_calls_per_turn
    ELSE 10

\* a variant that allows one round more
canExecuteRound_inclusive(p, rounds) == rounds <= maxRounds(p)

canExecuteRound(p, rounds) == rounds < maxRounds(p)

canExecuteCall(p, calls) == calls < maxCalls(p)

getStatus(p, rounds, calls) ==
    [roundCount |-> rounds, callCount |-> calls, maxRounds |-> maxRounds(p),
     maxCalls |-> maxCalls(p)]

\* The two counters of a manager, as the methods below read and write them.
Counters(rounds, calls) == [roundCount |-> rounds, callCount |-> calls]

\* A startRound that also clears the call counter.
startRound_resetsCalls(c) == Counters(c.roundCount + 1, 0)

\* startRound(): this.roundCount++ and nothing else.
startRound(c) == Counters(c.roundCount + 1, c.callCount)

\* recordCall(): this.callCount++ and nothing else.
recordCall(c) == Counters(c.roundCount, c.callCount + 1)

\* reset(): both counters back to zero; the policy is not touched.
reset(c) == Counters(0, 0)

(***************************************************************************)
(* registry.ts, PromptPackRegistry.  packs is the Map of the registry, a   *)
(* function from pack ids to packs; a pack is a record [id, version].      *)
(* operations is the list of the register, unregister and clear calls made *)
(* on the registry so far.                                                 *)
(***************************************************************************)
NotFoundError(packId) ==
    [name |-> "NotFoundError",
     message |-> "PromptPack '${packId}' not found in registry",
     packId |-> packId]

NoPack == [id |-> "", version |-> 0]

\* this.packs.delete(packId)
Delete(m, k) ==
    IF DOMAIN m \ {k} = {} THEN <<>> ELSE [n \in DOMAIN m \ {k} |-> m[n]]

\* a register that keeps the pack an id already has
register_keepsFirst(m, pack) ==
    IF pack.id \in DOMAIN m THEN m ELSE Put(m, pack.id, pack)

\* register(pack): this.packs.set(pack.id, pack)
register(m, pack) == Put(m, pack.id, pack)

\* registerMany(packs): register each, in order
RECURSIVE registerMany(_, _)
registerMany(m, list) ==
    IF list = <<>> THEN m
    ELSE registerMany(register(m, Head(list)), Tail(list))

\* unregister(packId): the map afterwards and the boolean returned
unregister(m, packId) ==
    [packs |-> Delete(m, packId), returned |-> packId \in DOMAIN m]

\* clear()
clear(m) == <<>>

\* getPack(packId): the pack, or NotFoundError when the Map has no entry
getPack(m, packId) ==
    IF packId \in DOMAIN m
    THEN [status |-> "returned", pack |-> m[packId], error |-> NoError]
    ELSE [status |-> "raised", pack |-> NoPack, error |-> NotFoundError(packId)]

hasPack(m, packId) == packId \in DOMAIN m

size(m) == Cardinality(DOMAIN m)

(***************************************************************************)
(* The inputs of the model.                                                *)
(***************************************************************************)
PoolTypes == {"max_length", "sentiment", "pii_detection"}

PoolParams(type) ==
    CASE type = "max_length" -> [max_characters |-> 3]
      [] type = "banned_words" -> [words |-> <<Txt_bad>>]
      [] type = "pii_detection" -> [max_characters |-> 0]
      [] OTHER -> NoParams

Validator(type, enabled, fov, params) ==
    [type |-> type, enabled |-> enabled, fail_on_violation |-> fov,
     params |-> params]

Pool == { Validator(t, e, f, PoolParams(t)) :
            t \in PoolTypes, e \in BOOLEAN, f \in BOOLEAN }

RECURSIVE SeqsUpTo(_, _)
SeqsUpTo(S, n) ==
    IF n = 0 THEN {<<>>}
    ELSE LET shorter == SeqsUpTo(S, n - 1)
         IN shorter \cup { Append(q, x) : q \in shorter, x \in S }

ValidatorLists == SeqsUpTo(Pool, MaxValidators)

Responses == {Txt_bad, Txt_good}

ImplOf(type) ==
    IF type = "sentiment" THEN "positiveSentiment" ELSE "rejectAll"

\* the implementation maps a caller may pass: none, the custom types one
\* after the other, and an override of a built-in type
CustomRegistries ==
    { [t \in K |-> ImplOf(t)] :
        K \in {{}, {"sentiment"}, {"sentiment", "pii_detection"},
               {"sentiment", "pii_detection", "max_length"}} }

(***************************************************************************)
(* The parts of the state a specification leaves alone.                    *)
(***************************************************************************)
IdlePipeline ==
    /\ validators = <<>>
    /\ customValidators = <<>>
    /\ throwOnFailure = FALSE
    /\ phase = "declared"
    /\ missing = <<>>
    /\ last = NoCall
    /\ firstCall = NoCall
    /\ between = FALSE

IdleRegistry ==
    /\ packs = <<>>
    /\ operations = <<>>

IdleTemplate ==
    /\ rendered = NoRender
    /\ checked = NoCheck

IdleTools ==
    /\ policy = <<>>
    /\ roundCount = 0
    /\ callCount = 0
    /\ roundsStarted = 0
    /\ callsRecorded = 0
    /\ obeyed = TRUE

(***************************************************************************)
(* State machine.  validators is the descriptor list of the prompt; phase  *)
(* is "declared" before new ValidationRunnable(...), then "constructed" or *)
(* "rejected" (the constructor threw, `missing` is the list in its         *)
(* message); last is the outcome of the latest invoke / validateResponse.  *)
(***************************************************************************)
Init ==
    /\ validators \in ValidatorLists
    /\ customValidators = <<>>
    /\ throwOnFailure = FALSE
    /\ phase = "declared"
    /\ missing = <<>>
    /\ last = NoCall
    /\ firstCall = NoCall
    /\ between = FALSE
    /\ IdleTemplate
    /\ IdleTools
    /\ IdleRegistry

\* new ValidationRunnable({validators, customValidators, throwOnFailure})
Construct(cv, tof) ==
    /\ phase = "declared"
    /\ customValidators' = cv
    /\ throwOnFailure' = tof
    /\ missing' = missingValidators(validators, cv)
    /\ phase' = IF Len(missing') > 0 THEN "rejected" ELSE "constructed"
    /\ UNCHANGED <<validators, last, firstCall, between>>
    /\ UNCHANGED <<templateVars, toolVars, registryVars>>

\* an invoke that uses up the implementation map: the map is empty afterwards
Invoke_consumesImplementations(response) ==
    /\ phase = "constructed"
    /\ last' = invoke(response, validators, customValidators, throwOnFailure)
    /\ firstCall' = IF firstCall = NoCall THEN last' ELSE firstCall
    /\ between' = (between \/ (firstCall # NoCall /\ response # firstCall.response))
    /\ customValidators' = <<>>
    /\ UNCHANGED <<validators, throwOnFailure, phase, missing>>
    /\ UNCHANGED <<templateVars, toolVars, registryVars>>

\* runnable.invoke(response); firstCall keeps what the first invocation of
\* this runnable returned or raised, and between tells that the runnable was
\* invoked on another input since
Invoke(response) ==
    /\ phase = "constructed"
    /\ last' = invoke(response, validators, customValidators, throwOnFailure)
    /\ firstCall' = IF firstCall = NoCall THEN last' ELSE firstCall
    /\ between' = (between \/ (firstCall # NoCall /\ response # firstCall.response))
    /\ UNCHANGED <<validators, customValidators, throwOnFailure, phase,
                   missing>>
    /\ UNCHANGED <<templateVars, toolVars, registryVars>>

\* what a direct call of validateResponse leaves behind
directReport(response, run) ==
    IF run.status = "raised"
    THEN Report("validateResponse", response, run, FALSE, <<>>)
    ELSE Report("validateResponse", response, run,
                allValidatorsPassed(run.results),
                getFailedValidators(run.results))

\* validateResponse(response, validators), the direct batch path
ValidateResponse(response) ==
    /\ last' = directReport(response, validateResponse(response, validators))
    /\ UNCHANGED <<validators, customValidators, throwOnFailure, phase,
                   missing, firstCall, between>>
    /\ UNCHANGED <<templateVars, toolVars, registryVars>>

Next ==
    \/ \E cv \in CustomRegistries, tof \in BOOLEAN : Construct(cv, tof)
    \/ \E response \in Responses : Invoke(response)
    \/ \E response \in Responses : ValidateResponse(response)

Spec == Init /\ [][Next]_vars

(***************************************************************************)
(* The inputs of the template engine: templates are concatenations of at   *)
(* most MaxPieces pieces (single braces, placeholders of the variables a   *)
(* and id and of the fragment f) and the template that wraps a placeholder *)
(* in a second pair of braces; the fragment maps hold plain, nested and    *)
(* cyclic fragments f and g, g being reached through f; the variable maps  *)
(* hold values of every kind, one of them spelling a placeholder.          *)
(***************************************************************************)
Name_a == <<"a">>
Name_id == <<"i", "d">>
Name_f == <<"f">>
Name_g == <<"g">>

Pieces == {<<"{">>, <<"}">>, Ph(Name_a), Ph(Name_id), Ph(Name_f)}

RECURSIVE Flatten(_)
Flatten(parts) ==
    IF parts = <<>> THEN <<>> ELSE Head(parts) \o Flatten(Tail(parts))

Tpl_wrapped == <<"{", "{">> \o Ph(Name_a) \o <<"}", "}">>

Templates ==
    { Flatten(parts) : parts \in SeqsUpTo(Pieces, MaxPieces) }
        \cup {Tpl_wrapped}

EmptyMap == <<>>

OneKey(name, value) == [n \in {name} |-> value]

\* {...m1, ...m2} for maps with different keys
Merge(m1, m2) ==
    [n \in DOMAIN m1 \cup DOMAIN m2 |->
        IF n \in DOMAIN m1 THEN m1[n] ELSE m2[n]]

FragmentMaps ==
    { Merge(mf, mg) :
        mf \in {EmptyMap} \cup
               { OneKey(Name_f, t) :
                   t \in {<<"x">>, Ph(Name_a), Ph(Name_f), Ph(Name_g)} },
        mg \in {EmptyMap} \cup
               { OneKey(Name_g, t) :
                   t \in {Ph(Name_f), Ph(Name_id) \o <<"}">>} } }

VariableMaps ==
    { Merge(ma, mi) :
        ma \in {EmptyMap} \cup
               { OneKey(Name_a, v) :
                   v \in {StringValue(<<"v">>), StringValue(Ph(Name_id)),
                          NumberValue(42)} },
        mi \in {EmptyMap} \cup
               { OneKey(Name_id, v) :
                   v \in {BooleanValue(TRUE), Undefined,
                          ObjectValue(<<"{", "}">>)} } }

(***************************************************************************)
(* The template engine as a state machine: a caller holds a template, a    *)
(* variable map and a fragment map (rendered.op = "none" until the first   *)
(* call); rendered is then what the latest call of render was given and    *)
(* what it returned or raised.                                             *)
(***************************************************************************)
InitTemplate ==
    /\ IdlePipeline
    /\ \E template \in Templates, variables \in VariableMaps,
          fragments \in FragmentMaps :
           rendered = Rendering("none", template, variables, fragments,
                                FALSE, NoRender)
    /\ checked = NoCheck
    /\ IdleTools
    /\ IdleRegistry

\* engine.render(template, {variables, fragments, allowUndefined})
Render(allowUndefined) ==
    /\ rendered' = Rendering("render", rendered.template, rendered.variables,
                             rendered.fragments, allowUndefined,
                             render(rendered.template, rendered.variables,
                                    rendered.fragments, allowUndefined))
    /\ UNCHANGED <<pipelineVars, checked, toolVars, registryVars>>

\* engine.render(output, {allowUndefined}) on the text the latest call
\* returned, with no variables and no fragments
RenderOutput(allowUndefined) ==
    /\ rendered.op # "none"
    /\ rendered.status = "returned"
    /\ rendered' = Rendering("renderOutput", rendered.text, EmptyMap,
                             EmptyMap, allowUndefined,
                             render(rendered.text, EmptyMap, EmptyMap,
                                    allowUndefined))
    /\ UNCHANGED <<pipelineVars, checked, toolVars, registryVars>>

NextTemplate ==
    \/ \E allowUndefined \in BOOLEAN : Render(allowUndefined)
    \/ \E allowUndefined \in BOOLEAN : RenderOutput(allowUndefined)

SpecTemplate == InitTemplate /\ [][NextTemplate]_vars

(***************************************************************************)
(* Deep fragment nesting: the fragment map is a chain f_1 includes f_2     *)
(* includes ... f_n of at most MaxChain fragments that ends in plain text, *)
(* in a variable placeholder or back at f_1, with or without a fragment    *)
(* under the name of the variable a; the template refers to one fragment   *)
(* of the chain or to the name a.                                          *)
(***************************************************************************)
MaxChain == 10

ChainLetters == <<"a", "b", "c", "d", "e", "f", "g", "h", "i", "j", "k", "l">>

\* the name of the k-th fragment of the chain
ChainName(k) == <<"f", "_", ChainLetters[k]>>

\* what the last fragment of a chain may hold
ChainEnds == {<<"x">>, Ph(Name_a), Ph(ChainName(1))}

Chain(n, end) ==
    [name \in {ChainName(k) : k \in 1..n} |->
        LET k == CHOOSE j \in 1..n : ChainName(j) = name
        IN IF k = n THEN end ELSE Ph(ChainName(k + 1))]

ChainMaps ==
    { Merge(Chain(n, end), extra) :
        n \in 0..MaxChain, end \in ChainEnds,
        extra \in {EmptyMap} \cup
                  { OneKey(Name_a, t) : t \in {<<"x">>, Ph(Name_id)} } }

ChainVariables ==
    { Merge(ma, mi) :
        ma \in {EmptyMap, OneKey(Name_a, StringValue(<<"v">>))},
        mi \in {EmptyMap, OneKey(Name_id, StringValue(<<"w">>))} }

InitFragments ==
    /\ IdlePipeline
    /\ \E fragments \in ChainMaps, variables \in ChainVariables :
         \E template \in {Ph(Name_a)} \cup { Ph(name) : name \in DOMAIN fragments } :
           rendered = Rendering("none", template, variables, fragments,
                                FALSE, NoRender)
    /\ checked = NoCheck
    /\ IdleTools
    /\ IdleRegistry

SpecFragments == InitFragments /\ [][NextTemplate]_vars

(***************************************************************************)
(* Variable validation as a state machine: a prompt declares at most       *)
(* MaxVariables variables (required or optional, with and without          *)
(* defaults, defaults that break their own type or rule) and a caller      *)
(* holds a value map with absent, undefined, falsy, valid and invalid      *)
(* values; checked is what the latest validateVariables / format call was  *)
(* given and what it returned or raised.                                   *)
(***************************************************************************)
VarDef(name, type, required, default, validation) ==
    [name |-> name, type |-> type, required |-> required,
     default |-> default, validation |-> validation]

Definitions ==
    {VarDef(Name_a, "string", TRUE, Undefined, [pattern |-> <<"v">>]),
     VarDef(Name_a, "string", TRUE, StringValue(<<"d", "d">>),
            [max_length |-> 1]),
     VarDef(Name_a, "string", FALSE, StringValue(<<"d">>),
            [min_length |-> 1]),
     VarDef(Name_a, "string", TRUE, NumberValue(7), NoValidation),
     VarDef(Name_id, "number", TRUE, Undefined, [minimum |-> 1]),
     VarDef(Name_id, "number", TRUE, NumberValue(5),
            [minimum |-> 1, maximum |-> 9]),
     VarDef(Name_id, "number", FALSE, Undefined,
            [enum |-> <<NumberValue(3)>>]),
     VarDef(Name_id, "boolean", TRUE, BooleanValue(FALSE), NoValidation)}

DefinitionLists == SeqsUpTo(Definitions, MaxVariables)

ValueMaps ==
    { Merge(ma, mi) :
        ma \in {EmptyMap} \cup
               { OneKey(Name_a, v) :
                   v \in {StringValue(<<"v">>), StringValue(<<>>),
                          StringValue(<<"v", "v">>), NumberValue(0)} },
        mi \in {EmptyMap} \cup
               { OneKey(Name_id, v) :
                   v \in {Undefined, NumberValue(0), NumberValue(3),
                          NullValue, BooleanValue(FALSE)} } }

\* promptConfig.system_template of the prompt that declares the variables
SystemTemplate == Ph(Name_a) \o <<"x">> \o Ph(Name_id)

InitVariables ==
    /\ IdlePipeline
    /\ rendered = NoRender
    /\ \E defs \in DefinitionLists, values \in ValueMaps :
           checked = Checking("none", defs, values, <<>>, NotValidated, <<>>)
    /\ IdleTools
    /\ IdleRegistry

\* engine.validateVariables(definitions, values)
ValidateVariables ==
    /\ checked' = Checking("validateVariables", checked.definitions,
                           checked.values, checked.values,
                           validateVariables(checked.definitions,
                                             checked.values),
                           <<>>)
    /\ UNCHANGED <<pipelineVars, rendered, toolVars, registryVars>>

\* template.format(values) with renderOptions {validate, allowUndefined}
Format(validate, allowUndefined) ==
    /\ checked' = format(checked.definitions, checked.values, SystemTemplate,
                         EmptyMap, validate, allowUndefined)
    /\ UNCHANGED <<pipelineVars, rendered, toolVars, registryVars>>

NextVariables ==
    \/ ValidateVariables
    \/ \E validate \in BOOLEAN, allowUndefined \in BOOLEAN :
           Format(validate, allowUndefined)

SpecVariables == InitVariables /\ [][NextVariables]_vars

(***************************************************************************)
(* The rules of one variable: a prompt declares the single variable a, of  *)
(* type string, number or boolean, with any combination of the rules of    *)
(* its type and an enum, among them lengths and ranges that no value       *)
(* satisfies and a pattern that does not compile; the caller's value is    *)
(* absent, of the declared type or of another type.                        *)
(***************************************************************************)
StringRules ==
    { Merge(Merge(pt, mn), Merge(mx, en)) :
        pt \in {NoValidation} \cup { [pattern |-> t] : t \in {<<"v">>, <<"(">>} },
        mn \in {NoValidation, [min_length |-> 3]},
        mx \in {NoValidation, [max_length |-> 1]},
        en \in {NoValidation, [enum |-> <<StringValue(<<"v", "v">>)>>]} }

NumberRules ==
    { Merge(mn, Merge(mx, en)) :
        mn \in {NoValidation, [minimum |-> 5]},
        mx \in {NoValidation, [maximum |-> 1]},
        en \in {NoValidation, [enum |-> <<NumberValue(3), NumberValue(0)>>]} }

BooleanRules ==
    {NoValidation, [enum |-> <<BooleanValue(TRUE)>>],
     [enum |-> <<BooleanValue(TRUE)>>, min_length |-> 3, minimum |-> 5]}

RuleDefinitions ==
    { VarDef(Name_a, "string", TRUE, Undefined, v) : v \in StringRules }
    \cup { VarDef(Name_a, "number", TRUE, Undefined, v) : v \in NumberRules }
    \cup { VarDef(Name_a, "boolean", TRUE, Undefined, v) : v \in BooleanRules }

RuleValues ==
    {EmptyMap} \cup
    { OneKey(Name_a, v) :
        v \in {StringValue(<<>>), StringValue(<<"v">>),
               StringValue(<<"v", "v">>), StringValue(<<"x", "x">>),
               StringValue(<<"v", "v", "v">>),
               NumberValue(0), NumberValue(3), NumberValue(7),
               BooleanValue(TRUE), BooleanValue(FALSE)} }

InitRules ==
    /\ IdlePipeline
    /\ rendered = NoRender
    /\ \E varDef \in RuleDefinitions, values \in RuleValues :
           checked = Checking("none", <<varDef>>, values, <<>>, NotValidated,
                              <<>>)
    /\ IdleTools
    /\ IdleRegistry

SpecRules == InitRules /\ [][NextVariables]_vars

(***************************************************************************)
(* The built-in evaluators one at a time: the prompt declares one enabled  *)
(* descriptor of max_length, regex_match or banned_words, with and without *)
(* fail_on_violation, and the response is evaluated through               *)
(* validateResponse and through ValidationRunnable.invoke in either mode.  *)
(* The responses are the texts of 0 to MaxLength characters and texts that *)
(* hold a banned word in another casing, inside a longer word and next to  *)
(* an underscore.                                                          *)
(***************************************************************************)
MaxLengthParams ==
    { Merge(mc, mt) :
        mc \in {NoParams} \cup { [max_characters |-> n] : n \in {0, 3, 10} },
        mt \in {NoParams} \cup { [max_tokens |-> n] : n \in {0, 1, 2} } }

RegexParams ==
    { Merge(pt, mm) :
        pt \in {NoParams} \cup
               { [pattern |-> t] : t \in {Txt_bad, <<"(">>, <<"[", "a">>} },
        mm \in {NoParams} \cup { [must_match |-> b] : b \in BOOLEAN } }

Txt_evil == <<"e", "v", "i", "l">>
Txt_BAD == <<"B", "A", "D">>

BannedWordsParams ==
    {NoParams} \cup
    { [words |-> w] :
        w \in {<<>>, <<Txt_bad, Txt_evil>>, <<Txt_evil, Txt_bad>>,
               <<Txt_BAD>>, <<Txt_BAD, Txt_bad>>} }

EvaluatorDescriptors ==
    { Validator("max_length", TRUE, f, p) :
        f \in BOOLEAN, p \in MaxLengthParams }
    \cup { Validator("regex_match", TRUE, f, p) :
             f \in BOOLEAN, p \in RegexParams }
    \cup { Validator("banned_words", TRUE, f, p) :
             f \in BOOLEAN, p \in BannedWordsParams }

\* 'x'.repeat(n)
Repeat_x(n) == [k \in 1..n |-> "x"]

Txt_thisIsBad ==
    <<"T", "h", "i", "s", " ", "i", "s", " ", "B", "A", "D">>

EvaluatorResponses ==
    { Repeat_x(n) : n \in 0..MaxLength }
    \cup {Txt_thisIsBad, Txt_bad \o <<"l", "y">>,
          Txt_evil \o <<" ">> \o Txt_bad, <<"n", "o", "t", "_">> \o Txt_bad,
          Txt_good}

InitEvaluators ==
    /\ \E validator \in EvaluatorDescriptors : validators = <<validator>>
    /\ customValidators = <<>>
    /\ throwOnFailure = FALSE
    /\ phase = "declared"
    /\ missing = <<>>
    /\ last = NoCall
    /\ firstCall = NoCall
    /\ between = FALSE
    /\ IdleTemplate
    /\ IdleTools
    /\ IdleRegistry

NextEvaluators ==
    \/ \E tof \in BOOLEAN : Construct(<<>>, tof)
    \/ \E response \in EvaluatorResponses : Invoke(response)
    \/ \E response \in EvaluatorResponses : ValidateResponse(response)

SpecEvaluators == InitEvaluators /\ [][NextEvaluators]_vars

(***************************************************************************)
(* The tool execution manager as a state machine: constructed with no      *)
(* policy or with a policy that sets, leaves out or zeroes each limit;     *)
(* callers may or may not ask canExecuteRound() / canExecuteCall() first.  *)
(* MaxCount caps the counters.                                             *)
(***************************************************************************)
PolicyArgs ==
    {Undefined} \cup
    { Merge(mr, mc) :
        mr \in {EmptyMap} \cup { [max_rounds |-> n] : n \in 0..3 },
        mc \in {EmptyMap} \cup
               { [max_tool_calls_per_turn |-> n] : n \in 0..2 } }

InitTools ==
    /\ IdlePipeline
    /\ IdleTemplate
    /\ IdleRegistry
    /\ \E policyArg \in PolicyArgs : policy = newToolExecutionManager(policyArg)
    /\ roundCount = 0
    /\ callCount = 0
    /\ roundsStarted = 0
    /\ callsRecorded = 0
    /\ obeyed = TRUE

\* manager.startRound()
StartRound ==
    /\ roundCount < MaxCount
    /\ roundCount' = startRound(Counters(roundCount, callCount)).roundCount
    /\ callCount' = startRound(Counters(roundCount, callCount)).callCount
    /\ roundsStarted' = roundsStarted + 1
    /\ obeyed' = (obeyed /\ canExecuteRound(policy, roundCount))
    /\ UNCHANGED <<policy, callsRecorded>>
    /\ UNCHANGED <<pipelineVars, templateVars, registryVars>>

\* manager.recordCall()
RecordCall ==
    /\ callCount < MaxCount
    /\ callCount' = recordCall(Counters(roundCount, callCount)).callCount
    /\ callsRecorded' = callsRecorded + 1
    /\ obeyed' = (obeyed /\ canExecuteCall(policy, callCount))
    /\ UNCHANGED <<policy, roundCount, roundsStarted>>
    /\ UNCHANGED <<pipelineVars, templateVars, registryVars>>

\* manager.reset()
Reset ==
    /\ roundCount' = reset(Counters(roundCount, callCount)).roundCount
    /\ callCount' = reset(Counters(roundCount, callCount)).callCount
    /\ roundsStarted' = 0
    /\ callsRecorded' = 0
    /\ UNCHANGED <<policy, obeyed>>
    /\ UNCHANGED <<pipelineVars, templateVars, registryVars>>

NextTools == StartRound \/ RecordCall \/ Reset

SpecTools == InitTools /\ [][NextTools]_vars

(***************************************************************************)
(* The registry as a state machine: packs of two ids in two versions are   *)
(* registered, one at a time or two at once, ids (one of them never        *)
(* registered) are unregistered and the registry is cleared, in any order, *)
(* MaxOperations calls in all.                                             *)
(***************************************************************************)
MaxOperations == 4

PackIds == {"support", "sales"}

Packs == { [id |-> id, version |-> n] : id \in PackIds, n \in 1..2 }

QueryIds == PackIds \cup {"unknown"}

Operation(op, id, pack) == [op |-> op, id |-> id, pack |-> pack]

InitRegistry ==
    /\ IdlePipeline
    /\ IdleTemplate
    /\ IdleTools
    /\ packs = <<>>
    /\ operations = <<>>

\* registry.register(pack)
Register(pack) ==
    /\ Len(operations) < MaxOperations
    /\ packs' = register(packs, pack)
    /\ operations' = Append(operations, Operation("register", pack.id, pack))
    /\ UNCHANGED <<pipelineVars, templateVars, toolVars>>

\* registry.registerMany([first, second])
RegisterMany(first, second) ==
    /\ Len(operations) + 2 <= MaxOperations
    /\ packs' = registerMany(packs, <<first, second>>)
    /\ operations' = operations
                       \o <<Operation("register", first.id, first),
                            Operation("register", second.id, second)>>
    /\ UNCHANGED <<pipelineVars, templateVars, toolVars>>

\* registry.unregister(packId)
Unregister(packId) ==
    /\ Len(operations) < MaxOperations
    /\ packs' = unregister(packs, packId).packs
    /\ operations' = Append(operations, Operation("unregister", packId, NoPack))
    /\ UNCHANGED <<pipelineVars, templateVars, toolVars>>

\* registry.clear()
Clear ==
    /\ Len(operations) < MaxOperations
    /\ packs' = clear(packs)
    /\ operations' = Append(operations, Operation("clear", "", NoPack))
    /\ UNCHANGED <<pipelineVars, templateVars, toolVars>>

NextRegistry ==
    \/ \E pack \in Packs : Register(pack)
    \/ \E first \in Packs, second \in Packs : RegisterMany(first, second)
    \/ \E packId \in QueryIds : Unregister(packId)
    \/ Clear

SpecRegistry == InitRegistry /\ [][NextRegistry]_vars





(***************************************************************************)
(* Properties.  Vocabulary shared by the statements below.                 *)
(***************************************************************************)
\* indices of the enabled descriptors, in declaration order
EnabledIndices ==
    SelectSeq([i \in 1..Len(validators) |-> i],
              LAMBDA i : validators[i].enabled)

\* indices at which a result list has a failing outcome, in order
FailingPositions(results) ==
    SelectSeq([k \in 1..Len(results) |-> k], LAMBDA k : ~results[k].passed)

\* the outcome the dispatch rule assigns to descriptor i of the pipeline:
\* the registered custom implementation, else the built-in evaluator
PipelineOutcome(i, response) ==
    IF validators[i].type \in DOMAIN customValidators
    THEN CustomOutcome(customValidators[validators[i].type], response,
                       validators[i])
    ELSE runValidator(response, validators[i])

\* enabled descriptors with fail_on_violation whose outcome fails
CriticalIndices(response) ==
    SelectSeq(EnabledIndices,
              LAMBDA i : /\ validators[i].fail_on_violation
                         /\ ~PipelineOutcome(i, response).passed)

\* enabled descriptors whose outcome fails
FailingIndices(response) ==
    SelectSeq(EnabledIndices,
              LAMBDA i : ~PipelineOutcome(i, response).passed)

ErrorOf(outcome) ==
    GuardrailViolationError(
        IF outcome.message = "" THEN "Validation failed" ELSE outcome.message,
        outcome.validatorType, outcome.details)

CalledIndices == { last.calls[k].index : k \in 1..Len(last.calls) }

\* C1: with throwOnFailure = false, invoke never raises
\* GuardrailViolationError; it returns a report whatever the descriptors'
\* fail_on_violation flags and types are.
C1_ReportModeNeverRaises ==
    (last.op = "invoke" /\ ~throwOnFailure) => last.status = "returned"

\* C2: with throwOnFailure = true, if some enabled descriptor whose own
\* fail_on_violation flag is true produces a failing outcome, invoke raises.
C2_ThrowModeRaisesOnCritical ==
    (/\ last.op = "invoke"
     /\ throwOnFailure
     /\ Len(CriticalIndices(last.response)) > 0)
    => last.status = "raised"

\* C3: with throwOnFailure = true, when every failing outcome belongs to a
\* descriptor whose fail_on_violation is false, invoke does not raise, and
\* the report has passed = false and failed = exactly the failing outcomes.
C3_ThrowModeToleratesNonCritical ==
    (/\ last.op = "invoke"
     /\ throwOnFailure
     /\ Len(FailingIndices(last.response)) > 0
     /\ Len(CriticalIndices(last.response)) = 0)
    => /\ last.status = "returned"
       /\ last.passed = FALSE
       /\ last.failed = [k \in 1..Len(FailingIndices(last.response)) |->
                           PipelineOutcome(FailingIndices(last.response)[k],
                                           last.response)]

\* C4: with throwOnFailure = true, the error raised by invoke carries the
\* message, type and details of the first failing outcome, in declaration
\* order, among the enabled descriptors with fail_on_violation = true.
C4_ErrorIsFirstCritical ==
    (last.op = "invoke" /\ throwOnFailure /\ last.status = "raised")
    => /\ Len(CriticalIndices(last.response)) > 0
       /\ last.error = ErrorOf(PipelineOutcome(
                                  CriticalIndices(last.response)[1],
                                  last.response))

\* C5: every enabled descriptor has been evaluated before an error leaves
\* invoke.
C5_AllEvaluatedBeforeRaise ==
    (last.op = "invoke" /\ last.status = "raised")
    => \A k \in 1..Len(EnabledIndices) : EnabledIndices[k] \in CalledIndices

\* C6: a report returned by invoke has one outcome per enabled descriptor,
\* in declaration order; passed is the AND of the outcomes; failed is the
\* order-preserving sublist of the failing outcomes.
C6_ReportAggregation ==
    (last.op = "invoke" /\ last.status = "returned")
    => /\ Len(last.results) = Len(EnabledIndices)
       /\ \A k \in 1..Len(last.results) :
             /\ last.results[k].validatorType =
                    validators[EnabledIndices[k]].type
             /\ last.results[k] =
                    PipelineOutcome(EnabledIndices[k], last.response)
       /\ last.passed = ~(\E k \in 1..Len(last.results) :
                             ~last.results[k].passed)
       /\ Len(last.failed) = Len(FailingPositions(last.results))
       /\ \A k \in 1..Len(last.failed) :
             last.failed[k] = last.results[FailingPositions(last.results)[k]]

\* a returned report with a failing and a passing outcome and a disabled
\* descriptor in the list
C6_Witness ==
    /\ last.op = "invoke" /\ last.status = "returned"
    /\ Len(last.failed) >= 1
    /\ Len(last.failed) < Len(last.results)
    /\ Len(last.results) < Len(validators)

\* C7: for each enabled descriptor, a custom implementation registered for
\* its type is the one invoked, with (response, descriptor), even for a
\* built-in type; the built-in evaluator runs only without a custom entry.
C7_CustomTakesPrecedence ==
    (last.op = "invoke")
    => /\ \A k \in 1..Len(last.calls) :
             LET v == validators[last.calls[k].index]
             IN (last.calls[k].by = "custom")
                    <=> (v.type \in DOMAIN customValidators)
       /\ \A k \in 1..Len(last.results) :
             LET v == validators[last.calls[k].index]
             IN last.results[k] =
                    IF v.type \in DOMAIN customValidators
                    THEN CustomOutcome(customValidators[v.type],
                                       last.response, v)
                    ELSE runValidator(last.response, v)

\* a built-in type overridden by a custom implementation whose outcome
\* differs from the built-in one
C7_Witness ==
    /\ last.op = "invoke" /\ last.status = "returned"
    /\ \E k \in 1..Len(last.results) :
          LET v == validators[last.calls[k].index]
          IN /\ v.type \in OOTB_VALIDATORS
             /\ last.calls[k].by = "custom"
             /\ ~last.results[k].passed
             /\ runValidator(last.response, v).passed

\* the types construction has to find missing
RequiredMissing ==
    { validators[i].type : i \in
        { j \in 1..Len(validators) :
            /\ validators[j].enabled
            /\ validators[j].type \notin
                   {"banned_words", "max_length", "min_length", "regex_match"}
            /\ validators[j].type \notin DOMAIN customValidators } }

\* C8: construction fails iff some enabled descriptor has a type that is
\* not built-in and has no custom entry; the error names every such type.
C8_ReconciliationCompleteness ==
    (phase # "declared")
    => /\ (phase = "rejected") <=> (RequiredMissing # {})
       /\ { missing[k] : k \in 1..Len(missing) } = RequiredMissing

\* construction rejected with two different missing types, while another
\* custom type is implemented
C8_Witness ==
    /\ phase = "rejected"
    /\ Cardinality({ missing[k] : k \in 1..Len(missing) }) >= 2
    /\ \E i \in 1..Len(validators) : ~validators[i].enabled

\* the list without its disabled descriptors
EnabledOnly == [k \in 1..Len(EnabledIndices) |-> validators[EnabledIndices[k]]]

\* C9: a disabled descriptor is skipped entirely: it never fails
\* construction, is never evaluated, contributes no outcome, and its
\* fail_on_violation flag never causes an error to be raised, in invoke and
\* in validateResponse: a call that raises also raises on the list without
\* the disabled descriptors.
C9_DisabledSkippedEntirely ==
    /\ (phase # "declared") =>
           missing = missingValidators(EnabledOnly, customValidators)
    /\ \A k \in 1..Len(last.calls) : validators[last.calls[k].index].enabled
    /\ (last.op # "none" /\ last.status = "returned") =>
           Len(last.results) = Len(EnabledIndices)
    /\ (last.op = "invoke" /\ last.status = "raised") =>
           invoke(last.response, EnabledOnly, customValidators,
                  throwOnFailure).status = "raised"
    /\ (last.op = "validateResponse" /\ last.status = "raised") =>
           validateResponse(last.response, EnabledOnly).status = "raised"

\* the first enabled descriptor, in order, whose built-in outcome fails and
\* whose fail_on_violation is true (0 if there is none)
FirstDirectCritical(response) ==
    LET crit == SelectSeq(EnabledIndices,
                    LAMBDA i : /\ validators[i].fail_on_violation
                               /\ ~runValidator(response, validators[i]).passed)
    IN IF Len(crit) = 0 THEN 0 ELSE crit[1]

\* C10: validateResponse evaluates the enabled validators in declaration
\* order and raises at the first failing one with fail_on_violation = true
\* without evaluating any later one; otherwise it returns one result per
\* enabled validator, in order.
C10_DirectPathShortCircuits ==
    (last.op = "validateResponse")
    => LET first == FirstDirectCritical(last.response)
           upto == SelectSeq(EnabledIndices,
                             LAMBDA i : first = 0 \/ i <= first)
       IN /\ Len(last.calls) = Len(upto)
          /\ \A k \in 1..Len(upto) : last.calls[k].index = upto[k]
          /\ IF first # 0
             THEN /\ last.status = "raised"
                  /\ last.error = ErrorOf(runValidator(last.response,
                                                       validators[first]))
                  /\ last.error.validatorType = validators[first].type
             ELSE /\ last.status = "returned"
                  /\ Len(last.results) = Len(EnabledIndices)
                  /\ \A k \in 1..Len(last.results) :
                        last.results[k] =
                            runValidator(last.response,
                                         validators[EnabledIndices[k]])

\* validateResponse raised at a descriptor that is followed by an enabled
\* descriptor, which was not evaluated, after an earlier non-critical failure
C10_Witness ==
    /\ last.op = "validateResponse" /\ last.status = "raised"
    /\ Len(last.calls) >= 2
    /\ Len(last.calls) < Len(EnabledIndices)

(***************************************************************************)
(* Vocabulary of the template properties.                                  *)
(***************************************************************************)
\* the names of the placeholder tokens of a text
PlaceholderNames(text) == { m.name : m \in Range(Matches(text, 1)) }

HasPlaceholder(text) == Matches(text, 1) # <<>>

\* the fragments a text refers to
FragmentRefs(text, fragments) == PlaceholderNames(text) \cap DOMAIN fragments

\* the fragments included, directly or transitively, by the fragments `names`
RECURSIVE IncludedBy(_, _)
IncludedBy(names, fragments) ==
    LET more == names \cup UNION { FragmentRefs(fragments[n], fragments) :
                                     n \in names }
    IN IF more = names THEN names ELSE IncludedBy(more, fragments)

\* the fragments the template refers to, directly or through other fragments
ReferencedFragments(template, fragments) ==
    IncludedBy(FragmentRefs(template, fragments), fragments)

\* the fragment includes itself, directly or transitively
IncludesItself(name, fragments) ==
    name \in IncludedBy(FragmentRefs(fragments[name], fragments), fragments)

RenderCalled == rendered.op \in {"render", "renderOutput"}

\* C11: whenever the template refers to a fragment that includes itself,
\* directly or transitively, render raises the depth/cycle TemplateError
\* after exactly 10 substitution passes and returns no text.
C11_CycleRaisesAfterTenPasses ==
    (/\ RenderCalled
     /\ \E name \in ReferencedFragments(rendered.template, rendered.fragments) :
            IncludesItself(name, rendered.fragments))
    => /\ rendered.status = "raised"
       /\ rendered.error = DepthExceeded
       /\ rendered.depth = 10
       /\ rendered.text = <<>>

\* a template refers to f, f includes g and g includes f: the call raised
C11_Witness ==
    /\ RenderCalled
    /\ rendered.template = Ph(Name_f)
    /\ rendered.fragments = Merge(OneKey(Name_f, Ph(Name_g)),
                                  OneKey(Name_g, Ph(Name_f)))
    /\ rendered.status = "raised"
    /\ rendered.depth = 10

\* the placeholder names of the template and of the fragments it refers to
OccurringNames(template, fragments) ==
    PlaceholderNames(template)
        \cup UNION { PlaceholderNames(fragments[n]) :
                       n \in ReferencedFragments(template, fragments) }

\* the length of the longest chain of nested fragments below a text; the
\* fragments the text refers to must not include themselves
RECURSIVE NestingDepth(_, _)
NestingDepth(text, fragments) ==
    LET below == { NestingDepth(fragments[n], fragments) :
                     n \in FragmentRefs(text, fragments) }
    IN IF below = {} THEN 0
       ELSE 1 + CHOOSE d \in below : \A e \in below : e <= d

\* braces occur in the text only as the braces of placeholder tokens
BracesOnlyInPlaceholders(text) ==
    \A i \in 1..Len(text) :
        text[i] \in {"{", "}"}
            => \E m \in Range(Matches(text, 1)) : m.from <= i /\ i <= m.to

NoBraces(text) == \A i \in 1..Len(text) : text[i] \notin {"{", "}"}

C13_Idempotence ==
    (/\ RenderCalled
     /\ ~HasPlaceholder(rendered.template)
     /\ rendered.fragments = EmptyMap
     /\ rendered.variables = EmptyMap)
    => /\ rendered.status = "returned"
       /\ rendered.error = NoError
       /\ rendered.text = rendered.template

\* the output "{true}" of an earlier call, rendered again, came back as it was
C13_Witness ==
    /\ rendered.op = "renderOutput"
    /\ rendered.template = <<"{", "t", "r", "u", "e", "}">>
    /\ ~rendered.allowUndefined
    /\ rendered.status = "returned"
    /\ rendered.text = rendered.template

\* the text after fragment expansion
Expanded == substituteFragments(rendered.template, rendered.fragments)

\* the text from position i on with every placeholder of a defined variable
\* replaced by the variable's string form and every other placeholder as it
\* was written
RECURSIVE DefinedSubstituted(_, _, _, _)
DefinedSubstituted(text, i, ms, variables) ==
    IF ms = <<>> THEN SubSeq(text, i, Len(text))
    ELSE SubSeq(text, i, Head(ms).from - 1)
             \o (IF IsDefined(variables, Head(ms).name)
                 THEN valueToString(variables[Head(ms).name])
                 ELSE Ph(Head(ms).name))
             \o DefinedSubstituted(text, Head(ms).to + 1, Tail(ms), variables)

\* the names that occur and are neither a fragment nor a defined variable
UndefinedOccurring ==
    { name \in OccurringNames(rendered.template, rendered.fragments) :
        /\ name \notin DOMAIN rendered.fragments
        /\ ~IsDefined(rendered.variables, name) }

ViolatingPositions ==
    { i \in 1..Len(checked.definitions) :
        checkVariable(checked.definitions[i],
                      Lookup(checked.effective, checked.definitions[i].name))
            # NoError }

FirstViolating ==
    CHOOSE i \in ViolatingPositions : \A j \in ViolatingPositions : i <= j

\* C15: whenever validateVariables has run on definitions of which some
\* variable violates a rule, it raised the error of the first such variable
\* in declaration order, the error names that variable, and the variables
\* checked are exactly the declared ones up to it.
C15_FailFastValidation ==
    (checked.validated /\ ViolatingPositions # {})
    => /\ checked.status = "raised"
       /\ checked.error =
              checkVariable(checked.definitions[FirstViolating],
                            Lookup(checked.effective,
                                   checked.definitions[FirstViolating].name))
       /\ checked.error.variable = checked.definitions[FirstViolating].name
       /\ checked.log =
              [i \in 1..FirstViolating |-> checked.definitions[i].name]

\* a required a is missing and the number id is null: the error is the
\* missing-variable error of a, and id was never checked
C15_Witness ==
    /\ checked.op = "validateVariables"
    /\ Len(checked.definitions) = 2
    /\ checked.definitions[1].name = Name_a
    /\ checked.definitions[2].name = Name_id
    /\ checked.definitions[2].type = "number"
    /\ checked.values = OneKey(Name_id, NullValue)
    /\ checked.status = "raised"
    /\ checked.error = Missing(Name_a)
    /\ checked.log = <<Name_a>>

\* the declared default of a name: that of the first definition of the name
\* that has one
DefaultFor(name) ==
    LET with == { i \in 1..Len(checked.definitions) :
                    /\ checked.definitions[i].name = name
                    /\ checked.definitions[i].default # Undefined }
    IN IF with = {} THEN Undefined
       ELSE checked.definitions[CHOOSE i \in with : \A j \in with : i <= j]
                .default

\* C16: whenever variables have been validated, through format or by
\* validateVariables itself, the checks ran on the supplied values with each
\* exactly absent (undefined) value replaced by the declared default and
\* every other value, falsy ones included, as supplied; so no required
\* variable that is absent but has a default raised the missing-variable
\* error.
C16_DefaultsBeforeChecks ==
    checked.validated
    => /\ \A name \in {Name_a, Name_id} :
              Lookup(checked.effective, name) =
                 IF Lookup(checked.values, name) # Undefined
                 THEN checked.values[name]
                 ELSE DefaultFor(name)
       /\ \A i \in 1..Len(checked.definitions) :
              (/\ checked.definitions[i].required
               /\ checked.definitions[i].default # Undefined)
              => checked.error # Missing(checked.definitions[i].name)

(***************************************************************************)
(* Vocabulary of the evaluator properties: what the latest call tells      *)
(* about the outcome of the one declared descriptor, in the results it     *)
(* returned or in the GuardrailViolationError it raised.                   *)
(***************************************************************************)
Evaluated(type) ==
    /\ last.op \in {"invoke", "validateResponse"}
    /\ Len(validators) = 1
    /\ validators[1].type = type

ObservedPassed == last.status = "returned" /\ last.results[1].passed

ObservedType ==
    IF last.status = "returned" THEN last.results[1].validatorType
    ELSE last.error.validatorType

ObservedDetails ==
    IF last.status = "returned" THEN last.results[1].details
    ELSE last.error.details

\* the least number of tokens of 4 characters that hold n characters
TokensFor(n) == CHOOSE t \in 0..n : 4 * t >= n /\ (t = 0 \/ 4 * (t - 1) < n)

\* C17: whenever a max_length descriptor has been evaluated on a response of
\* L characters, the outcome fails with details {length: L, max_characters}
\* if max_characters is set and L > max_characters; otherwise it fails with
\* details {estimated_tokens: ceil(L/4), max_tokens} if max_tokens is set
\* and ceil(L/4) > max_tokens; otherwise it passes.
C17_MaxLengthEvaluator ==
    Evaluated("max_length")
    => LET L == Len(last.response)
           params == validators[1].params
       IN /\ ObservedType = "max_length"
          /\ IF "max_characters" \in DOMAIN params
                /\ L > params.max_characters
             THEN /\ ~ObservedPassed
                  /\ ObservedDetails =
                        [length |-> L,
                         max_characters |-> params.max_characters]
             ELSE IF "max_tokens" \in DOMAIN params
                     /\ TokensFor(L) > params.max_tokens
             THEN /\ ~ObservedPassed
                  /\ ObservedDetails =
                        [estimated_tokens |-> TokensFor(L),
                         max_tokens |-> params.max_tokens]
             ELSE ObservedPassed

\* max_characters = 10 and max_tokens = 2 against 11 characters: both bounds
\* are exceeded and the character failure {length: 11, max_characters: 10}
\* was reported
C17_Witness ==
    /\ Evaluated("max_length")
    /\ validators[1].params = [max_characters |-> 10, max_tokens |-> 2]
    /\ Len(last.response) = 11
    /\ last.status = "returned"
    /\ ~last.results[1].passed
    /\ last.results[1].details = [length |-> 11, max_characters |-> 10]

\* C18: whenever a regex_match descriptor whose pattern does not compile has
\* been evaluated, through validateResponse or invoke and whatever
\* fail_on_violation is, the call returned, and returned a failing
\* regex_match outcome with the compile error in its details.
C18_InvalidRegexNeverThrows ==
    (/\ Evaluated("regex_match")
     /\ "pattern" \in DOMAIN validators[1].params
     /\ ~RegExpCompiles(validators[1].params.pattern))
    => /\ last.status = "returned"
       /\ ~last.results[1].passed
       /\ last.results[1].validatorType = "regex_match"
       /\ last.results[1].details = [error |-> "SyntaxError"]

\* the phrase occurs in the response as a whole word, whatever the casing
WholeWordIn(response, phrase) ==
    \E i \in 1..Len(response) :
        /\ MatchesAt(response, phrase, i, TRUE)
        /\ i = 1 \/ ~IsWordChar(response[i - 1])
        /\ \/ i + Len(phrase) > Len(response)
           \/ ~IsWordChar(response[i + Len(phrase)])

RoundStarted == roundsStarted' = roundsStarted + 1

ResetDone ==
    /\ roundsStarted + callsRecorded > 0
    /\ roundsStarted' = 0
    /\ callsRecorded' = 0

\* the limit is omitted from the policy or given as zero
OmittedOrZero(key) == key \notin DOMAIN policy \/ policy[key] = 0

\* C30: a max_rounds that is omitted or 0 gives the effective limit 5 and a
\* max_tool_calls_per_turn that is omitted or 0 gives 10, in canExecuteRound
\* and canExecuteCall as well as in getStatus; reset() sets both counters to
\* zero and leaves the limits as they were.
C30_DefaultLimits ==
    /\ [](/\ OmittedOrZero("max_rounds")
             => /\ getStatus(policy, roundCount, callCount).maxRounds = 5
                /\ canExecuteRound(policy, roundCount) <=> roundCount < 5
          /\ OmittedOrZero("max_tool_calls_per_turn")
             => /\ getStatus(policy, roundCount, callCount).maxCalls = 10
                /\ canExecuteCall(policy, callCount) <=> callCount < 10)
    /\ [][ResetDone
          => /\ getStatus(policy, roundCount, callCount)'
                = [getStatus(policy, roundCount, callCount)
                     EXCEPT !.roundCount = 0, !.callCount = 0]
             /\ policy' = policy]_vars

\* C30 witness: max_rounds is 0 and max_tool_calls_per_turn is omitted; more
\* rounds were started than the default allows, and reset() then cleared the
\* counters: a round and a call are allowed again, under the limits 5 and 10.
C30_Witness ==
    /\ policy = [max_rounds |-> 0]
    /\ ~obeyed
    /\ roundsStarted = 0
    /\ getStatus(policy, roundCount, callCount)
         = [roundCount |-> 0, callCount |-> 0, maxRounds |-> 5, maxCalls |-> 10]
    /\ canExecuteRound(policy, roundCount)
    /\ canExecuteCall(policy, callCount)

(***************************************************************************)
(* The direct batch path and types it does not know.                       *)
(***************************************************************************)
\* the descriptor evaluated by the k-th evaluation of the latest call
EvaluatedDescriptor(k) == validators[last.calls[k].index]

\* C29: on the direct batch path an enabled descriptor whose type is not one
\* of the four built-in types is evaluated and yields the passing outcome
\* with the 'Unknown validator type' message; validateResponse neither
\* raises for it nor reports it failed, whatever its fail_on_violation flag
\* and its params.
C29_UnknownTypePasses ==
    last.op = "validateResponse"
    => /\ \A k \in 1..Len(last.calls) :
            ~isOOTBValidator(EvaluatedDescriptor(k).type)
            => /\ last.status = "raised" => k < Len(last.calls)
               /\ last.status = "returned"
                  => last.results[k]
                       = ValidationResult(TRUE, EvaluatedDescriptor(k).type,
                                          "Unknown validator type", NoDetails)
       /\ last.status = "returned"
          => \A i \in 1..Len(validators) :
                validators[i].enabled
                => \E k \in 1..Len(last.calls) : last.calls[k].index = i
       /\ last.status = "raised" => isOOTBValidator(last.error.validatorType)
       /\ \A j \in 1..Len(last.failed) :
            isOOTBValidator(last.failed[j].validatorType)

\* C29 witness: a failing max_length descriptor without the flag, then an
\* enabled pii_detection descriptor with fail_on_violation and params; the
\* call returned, and only max_length is reported as failed.
C29_Witness ==
    /\ last.op = "validateResponse"
    /\ last.status = "returned"
    /\ Len(validators) = 2
    /\ validators[1] = Validator("max_length", TRUE, FALSE, PoolParams("max_length"))
    /\ validators[2] = Validator("pii_detection", TRUE, TRUE, [max_characters |-> 0])
    /\ Len(last.results) = 2
    /\ ~last.results[1].passed
    /\ last.results[2].passed
    /\ Len(last.failed) = 1

(***************************************************************************)
(* The reconciled pipeline.                                                *)
(***************************************************************************)
\* a step in which invoke ran and left a new outcome
Invoked == last'.op = "invoke" /\ last' # last

\* C24: once a ValidationRunnable is constructed, in every invoke each
\* enabled descriptor that is evaluated is evaluated by the implementation
\* registered for its type or, for one of the four built-in types, by the
\* built-in evaluator; no outcome is the 'Unknown validator type'
\* fall-through; and invoke does not reconcile again: the constructor's
\* verdict is the same before and after it.
C24_NoConfigurationErrorInInvoke ==
    /\ [](last.op = "invoke"
          => /\ phase = "constructed"
             /\ \A k \in 1..Len(last.calls) :
                  /\ EvaluatedDescriptor(k).enabled
                  /\ \/ /\ last.calls[k].by = "custom"
                        /\ HasCustom(customValidators, EvaluatedDescriptor(k).type)
                     \/ /\ last.calls[k].by = "builtin"
                        /\ isOOTBValidator(EvaluatedDescriptor(k).type)
             /\ \A k \in 1..Len(last.results) :
                  last.results[k].message # "Unknown validator type")
    /\ [][Invoked => (phase' = phase /\ missing' = missing)]_vars

\* C24 witness: an implemented custom type, a disabled custom type without
\* an implementation and a built-in type; invoke returned the outcome of
\* the implementation and of the built-in evaluator.
C24_Witness ==
    /\ last.op = "invoke"
    /\ last.status = "returned"
    /\ Len(validators) = 3
    /\ validators[1].type = "sentiment" /\ validators[1].enabled
    /\ validators[2].type = "pii_detection" /\ ~validators[2].enabled
    /\ validators[3].type = "max_length" /\ validators[3].enabled
    /\ DOMAIN customValidators = {"sentiment"}
    /\ last.calls = <<Call(1, "custom"), Call(3, "builtin")>>
    /\ Len(last.results) = 2

FragmentPass(text, fragments) ==
    ReplaceAll(text, 1, Matches(text, 1), fragments)

\* the text after k passes of fragment substitution
RECURSIVE TextAfterPasses(_, _, _)
TextAfterPasses(text, fragments, k) ==
    IF k = 0 THEN text
    ELSE FragmentPass(TextAfterPasses(text, fragments, k - 1), fragments)

\* a pass over this text replaces something
Replaces(text, fragments) == hasFragment(Matches(text, 1), fragments)

\* the k-th pass over the template of the latest call replaces something
PassReplaces(k) ==
    Replaces(TextAfterPasses(rendered.template, rendered.fragments, k - 1),
             rendered.fragments)

\* C23, as stated: fragment expansion raises the depth/cycle TemplateError
\* only if the 10th pass still performed a replacement; whenever some pass
\* among the first 10, the 10th included, performs no replacement, expansion
\* stops after that pass and the fragment-resolved text goes on to variable
\* substitution.
C23_PassCapContract ==
    RenderCalled
    => /\ rendered.error = DepthExceeded => PassReplaces(maxDepth)
       /\ (\E k \in 1..maxDepth : ~PassReplaces(k))
          => /\ rendered.error # DepthExceeded
             /\ ~PassReplaces(rendered.depth)
             /\ \A k \in 1..(rendered.depth - 1) : PassReplaces(k)

(***************************************************************************)
(* Fragments before variables.                                             *)
(***************************************************************************)
\* a text read top-down, in at most `fuel` levels of inclusion: a
\* placeholder that names a fragment stands for the fragment's text read the
\* same way, any other placeholder for the string form of its variable, and
\* a placeholder that names neither stays as written
RECURSIVE ResolvedFrom(_, _, _, _), ResolvedText(_, _)
ResolvedFrom(text, i, ms, fuel) ==
    IF ms = <<>> THEN SubSeq(text, i, Len(text))
    ELSE SubSeq(text, i, Head(ms).from - 1)
             \o (IF Head(ms).name \in DOMAIN rendered.fragments
                 THEN IF fuel = 0 THEN Ph(Head(ms).name)
                      ELSE ResolvedText(rendered.fragments[Head(ms).name],
                                        fuel - 1)
                 ELSE IF IsDefined(rendered.variables, Head(ms).name)
                 THEN valueToString(rendered.variables[Head(ms).name])
                 ELSE Ph(Head(ms).name))
             \o ResolvedFrom(text, Head(ms).to + 1, Tail(ms), fuel)

ResolvedText(text, fuel) == ResolvedFrom(text, 1, Matches(text, 1), fuel)

\* C26: fragments are substituted before variables, in one namespace: in the
\* text render returns, a placeholder whose name is a fragment key stands
\* for the fragment's text, also when the variable map has a value under
\* that name, and the placeholders of the fragment text are resolved the
\* same way, those that name no fragment against the variable map; a name
\* that is a fragment key is never reported as an undefined variable.
C26_FragmentsBeforeVariables ==
    rendered.op = "render"
    => /\ rendered.status = "returned"
          => rendered.text = ResolvedText(rendered.template, MaxChain + 1)
       /\ (rendered.status = "raised" /\ rendered.error # DepthExceeded)
          => rendered.error.subject \notin DOMAIN rendered.fragments

\* C26 witness: the name a is a fragment, whose text holds the placeholder
\* of id, and a variable with the value 'v'; '{{a}}' rendered to the value
\* of id.
C26_Witness ==
    /\ rendered.op = "render"
    /\ rendered.status = "returned"
    /\ rendered.template = Ph(Name_a)
    /\ Name_a \in DOMAIN rendered.fragments
    /\ rendered.fragments[Name_a] = Ph(Name_id)
    /\ rendered.variables
         = Merge(OneKey(Name_a, StringValue(<<"v">>)),
                 OneKey(Name_id, StringValue(<<"w">>)))
    /\ rendered.text = <<"w">>

(***************************************************************************)
(* Variable values are data.                                               *)
(***************************************************************************)
\* an inert mark that stands for the value of a variable
Mark(name) == <<"@">> \o name \o <<"@">>

\* the variable map with every defined value replaced by its mark
Marked(variables) ==
    [name \in DOMAIN variables |->
        IF IsDefined(variables, name) THEN StringValue(Mark(name))
        ELSE variables[name]]

\* the position of the next "@" of a text from position i on
RECURSIVE MarkEnd(_, _)
MarkEnd(text, i) ==
    IF i > Len(text) \/ text[i] = "@" THEN i ELSE MarkEnd(text, i + 1)

\* a text with every mark replaced by the string form of its variable
RECURSIVE Unmarked(_, _, _)
Unmarked(text, i, variables) ==
    IF i > Len(text) THEN <<>>
    ELSE IF text[i] = "@"
    THEN valueToString(variables[SubSeq(text, i + 1, MarkEnd(text, i + 1) - 1)])
             \o Unmarked(text, MarkEnd(text, i + 1) + 1, variables)
    ELSE <<text[i]>> \o Unmarked(text, i + 1, variables)

\* the latest call again, with marks for the values
MarkedRender ==
    render(rendered.template, Marked(rendered.variables), rendered.fragments,
           rendered.allowUndefined)

\* a defined variable whose string form holds a placeholder token
TokenInValue ==
    \E name \in DOMAIN rendered.variables :
        /\ IsDefined(rendered.variables, name)
        /\ HasPlaceholder(valueToString(rendered.variables[name]))

\* C28: variable values are never interpreted as template syntax: a render
\* returns or raises as it does when every value is replaced by an inert
\* mark, with the same error, and the text it returns is the text of that
\* render with each mark replaced by the value, so that a token inside a
\* value is copied as it is, is not expanded and causes no
\* undefined-placeholder error.
C28_ValuesAreData ==
    rendered.op = "render"
    => /\ rendered.status = MarkedRender.status
       /\ rendered.error = MarkedRender.error
       /\ rendered.text = Unmarked(MarkedRender.text, 1, rendered.variables)

\* C28 witness: a is the text '{{id}}' and id has no value; '{{a}}' rendered
\* without allowUndefined returned '{{id}}'.
C28_Witness ==
    /\ rendered.op = "render"
    /\ ~rendered.allowUndefined
    /\ rendered.template = Ph(Name_a)
    /\ rendered.variables = OneKey(Name_a, StringValue(Ph(Name_id)))
    /\ TokenInValue
    /\ rendered.status = "returned"
    /\ rendered.text = Ph(Name_id)

(***************************************************************************)
(* The order of the rules of one variable.                                 *)
(***************************************************************************)
RuleOrder ==
    <<"pattern", "min_length", "max_length", "minimum", "maximum", "enum">>

\* the rule is declared, applies to a value of the declared type, and the
\* value breaks it
Breaks(varDef, value, rule) ==
    /\ HasRule(varDef.validation, rule)
    /\ CASE rule = "pattern" ->
              /\ varDef.type = "string"
              /\ \/ ~RegExpCompiles(varDef.validation.pattern)
                 \/ ~Includes(value.str, varDef.validation.pattern)
         [] rule = "min_length" ->
              varDef.type = "string"
              /\ Len(value.str) < varDef.validation.min_length
         [] rule = "max_length" ->
              varDef.type = "string"
              /\ Len(value.str) > varDef.validation.max_length
         [] rule = "minimum" ->
              varDef.type = "number" /\ value.num < varDef.validation.minimum
         [] rule = "maximum" ->
              varDef.type = "number" /\ value.num > varDef.validation.maximum
         [] OTHER -> value \notin Range(varDef.validation.enum)

\* the rules the value breaks, in the order of RuleOrder
BrokenRules(varDef, value) ==
    SelectSeq(RuleOrder, LAMBDA rule : Breaks(varDef, value, rule))

\* the rule an error reports, "none" for an error of no rule
RuleOf(error) ==
    CASE error.name = "SyntaxError" -> "pattern"
      [] error.name # "ValidationError" -> "none"
      [] error.message = "Variable '${name}' does not match pattern ${validation.pattern}" -> "pattern"
      [] error.message = "Variable '${name}' must be at least ${validation.min_length} characters, got ${value.length}" -> "min_length"
      [] error.message = "Variable '${name}' must be at most ${validation.max_length} characters, got ${value.length}" -> "max_length"
      [] error.message = "Variable '${name}' must be at least ${validation.minimum}, got ${value}" -> "minimum"
      [] error.message = "Variable '${name}' must be at most ${validation.maximum}, got ${value}" -> "maximum"
      [] error.message = "Variable '${name}' must be one of: ${enumValues.join(', ')}" -> "enum"
      [] OTHER -> "none"

\* the one declared variable and the value its checks ran on
TheVariable == checked.definitions[1]
TheValue == Lookup(checked.effective, TheVariable.name)

\* C27: the rules of one variable are checked in a fixed order and the
\* check stops at the first that fails: for a string pattern, min_length,
\* max_length, for a number minimum, maximum, and then, for a value of any
\* declared type, membership in the enum whenever one is declared; the
\* error raised is that of the first broken rule in this order, and there
\* is none exactly when no rule is broken.
C27_RuleOrder ==
    (/\ checked.validated
     /\ Len(checked.definitions) = 1
     /\ TheValue # Undefined
     /\ TheValue.type = TheVariable.type)
    => IF BrokenRules(TheVariable, TheValue) = <<>>
       THEN RuleOf(checked.error) = "none"
       ELSE /\ checked.status = "raised"
            /\ checked.error.variable = TheVariable.name
            /\ RuleOf(checked.error) = BrokenRules(TheVariable, TheValue)[1]

\* C27 witness: a string with a pattern, a minimum length, a maximum length
\* and an enum, and the value 'xx', which breaks all four: the pattern error
\* was raised.
C27_Witness ==
    /\ checked.op = "validateVariables"
    /\ TheVariable.type = "string"
    /\ TheVariable.validation
         = [pattern |-> <<"v">>, min_length |-> 3, max_length |-> 1,
            enum |-> <<StringValue(<<"v", "v">>)>>]
    /\ TheValue = StringValue(<<"x", "x">>)
    /\ BrokenRules(TheVariable, TheValue)
         = <<"pattern", "min_length", "max_length", "enum">>
    /\ checked.status = "raised"
    /\ RuleOf(checked.error) = "pattern"

(***************************************************************************)
(* The registry as a map.                                                  *)
(***************************************************************************)
\* the calls that touch an id: its register and unregister calls and every
\* clear
Touches(k, packId) ==
    operations[k].op = "clear" \/ operations[k].id = packId

\* the position of the latest call that touches the id, 0 if there is none
LastTouch(packId) ==
    IF \E k \in 1..Len(operations) : Touches(k, packId)
    THEN CHOOSE k \in 1..Len(operations) :
            /\ Touches(k, packId)
            /\ \A j \in (k + 1)..Len(operations) : ~Touches(j, packId)
    ELSE 0

\* the id was registered after its last unregister and the last clear
CurrentlyRegistered(packId) ==
    /\ LastTouch(packId) # 0
    /\ operations[LastTouch(packId)].op = "register"

\* C22: the registry is a map keyed by pack id: after any sequence of
\* register, unregister and clear, getPack(id) returns the pack most
\* recently registered under id if that was after the last unregister(id)
\* and the last clear(), and raises NotFoundError otherwise; hasPack(id) is
\* true exactly in the first case; size() is the number of ids currently
\* registered.
C22_RegistryIsAMap ==
    /\ \A packId \in QueryIds :
         IF CurrentlyRegistered(packId)
         THEN /\ getPack(packs, packId).status = "returned"
              /\ getPack(packs, packId).pack = operations[LastTouch(packId)].pack
              /\ hasPack(packs, packId)
         ELSE /\ getPack(packs, packId).status = "raised"
              /\ getPack(packs, packId).error = NotFoundError(packId)
              /\ ~hasPack(packs, packId)
    /\ size(packs) = Cardinality({ packId \in QueryIds : CurrentlyRegistered(packId) })

\* C22 witness: 'support' was registered in one version and then in another,
\* and 'sales' was registered and unregistered: one id is registered, under
\* its latest pack.
C22_Witness ==
    /\ Len(operations) = 4
    /\ operations[1] = Operation("register", "support", [id |-> "support", version |-> 1])
    /\ operations[2] = Operation("register", "support", [id |-> "support", version |-> 2])
    /\ operations[3] = Operation("register", "sales", [id |-> "sales", version |-> 1])
    /\ operations[4] = Operation("unregister", "sales", NoPack)
    /\ getPack(packs, "support").pack = [id |-> "support", version |-> 2]
    /\ getPack(packs, "sales").status = "raised"
    /\ size(packs) = 1

====
